---- MODULE Spec2Model ----
(***************************************************************************)
(* mineginx: a TCP reverse proxy that decodes the first Minecraft packet   *)
(* (the handshake) of every connection, picks an upstream by the domain    *)
(* it names, replays the handshake and pumps bytes in both directions.     *)
(*                                                                         *)
(* Bytes are 0..255, strings are sequences of bytes (their UTF-8 form),    *)
(* i32 values are integers in -2^31..2^31-1.  A u32 bit pattern is kept as *)
(* two 16 bit halves [hi, lo], so that the shifts and masks of the VarInt  *)
(* codec keep their 32 bit width.  Rust indices are 0-based, sequences are *)
(* 1-based: buffer[i] of the source is buffer[i + 1] here.                 *)
(***************************************************************************)
EXTENDS Integers, Sequences, FiniteSets, TLC

\* ------------------------------------------------------------------ bounds

\* MinecraftStream::new(client, init_buffer_size): 4096 in handle_client,
\* 1024 in the tests; scaled down so that frames around the capacity occur.
InitBufferSize == 12
\* Buffer::new(1024) of make_raw's data buffer, scaled down so that expand() runs.
DataBufferSize == 4
\* vec![0; 2048] of forward_stream, scaled down: the largest chunk of one read.
ForwardBufferSize == 2

\* ------------------------------------------------------- program constants

SEGMENT_BITS == 127
CONTINUE_BIT == 128
\* Buffer::new(5) of make_raw's packet id and packet length buffers.
VarIntBufferSize == 5

\* ------------------------------------------------------------ fixed width

HALF == 256 * 256

RECURSIVE Pow2(_)
Pow2(n) == IF n = 0 THEN 1 ELSE 2 * Pow2(n - 1)

\* `x as u32` of an i32 x, as the halves of its two's complement bit pattern.
AsU32(x) ==
    IF x >= 0 THEN [hi |-> x \div HALF, lo |-> x % HALF]
    ELSE LET w == x + 2147483647 + 1      \* x + 2^31, in 0 .. 2^31 - 1
         IN  [hi |-> (w \div HALF) + 32768, lo |-> w % HALF]

\* `u as i32` of a u32 bit pattern.
AsI32(u) ==
    IF u.hi < 32768 THEN u.hi * HALF + u.lo
    ELSE (u.hi - HALF) * HALF + u.lo

\* u >> 7 on a u32.
Shr7(u) == [hi |-> u.hi \div 128, lo |-> (u.lo \div 128) + (u.hi % 128) * 512]

\* (x << p) on 32 bits for a 7 bit group x and p in {0, 7, 14, 21, 28}:
\* the bits shifted past bit 31 are dropped.
Shl32(x, p) ==
    IF p < 16 THEN [hi |-> (x * Pow2(p)) \div HALF, lo |-> (x * Pow2(p)) % HALF]
    ELSE [hi |-> (x * Pow2(p - 16)) % HALF, lo |-> 0]

\* a | b for bit patterns with no bit in common (the groups of a VarInt).
Or32(a, b) == [hi |-> a.hi + b.hi, lo |-> a.lo + b.lo]

\* A usize too large to be a buffer length: the wrapped result of a usize
\* subtraction below zero, or a negative i32 cast `as usize`.
HugeUsize == Pow2(30) + (Pow2(30) - 1)

\* ------------------------------------------------------- Byte Sink: Buffer

\* Buffer::new; `panic` records an out-of-bounds index in write_byte.
BufferNew(init_size) ==
    [array |-> [i \in 1..init_size |-> 0], position |-> 0, panic |-> FALSE]

expand(self) ==
    [self EXCEPT !.array = [i \in 1..(2 * Len(self.array)) |->
                               IF i <= Len(self.array) THEN self.array[i] ELSE 0]]

write_byte(self, value) ==
    IF self.panic THEN self
    ELSE LET e == IF Len(self.array) = self.position THEN expand(self) ELSE self
         IN  IF e.position >= Len(e.array) THEN [e EXCEPT !.panic = TRUE]
             ELSE [e EXCEPT !.array[e.position + 1] = value,
                            !.position = e.position + 1]

take(self) == SubSeq(self.array, 1, self.position)

reset(self) == [self EXCEPT !.position = 0]

\* ---------------------------------------------------------- field writers

RECURSIVE i32_write_loop(_, _)
i32_write_loop(value, stream) ==
    IF value.hi = 0 /\ value.lo \div (SEGMENT_BITS + 1) = 0
    THEN write_byte(stream, value.lo % 256)
    ELSE i32_write_loop(Shr7(value),
                        write_byte(stream, (value.lo % (SEGMENT_BITS + 1)) + CONTINUE_BIT))

i32_write(self, stream) == i32_write_loop(AsU32(self), stream)

RECURSIVE write_bytes(_, _)
write_bytes(bytes, stream) ==
    IF bytes = <<>> THEN stream
    ELSE write_bytes(Tail(bytes), write_byte(stream, Head(bytes)))

String_write(self, stream) == write_bytes(self, i32_write(Len(self), stream))

u16_write(self, stream) ==
    write_byte(write_byte(stream, (self \div 256) % 256), self % 256)

\* #[derive(PacketSerializer)] on HandshakeC2SPacket: the fields in order.
HandshakeC2SPacket_to_raw(self, stream) ==
    i32_write(self.next_state,
        u16_write(self.server_port,
            String_write(self.domain,
                i32_write(self.protocol_version, stream))))

\* make_raw, were the length prefix to count the payload alone.
make_raw_payload_length(id, packet) ==
    LET data_buffer == HandshakeC2SPacket_to_raw(packet, BufferNew(DataBufferSize))
        packet_id_buffer == i32_write(id, BufferNew(VarIntBufferSize))
        d2 == take(packet_id_buffer)
        d3 == take(data_buffer)
        packet_length_buffer == i32_write(Len(d3), BufferNew(VarIntBufferSize))
        d1 == take(packet_length_buffer)
    IN  d1 \o d2 \o d3

\* MinecraftPacket::make_raw: length || id || payload.
make_raw(id, packet) ==
    LET data_buffer == HandshakeC2SPacket_to_raw(packet, BufferNew(DataBufferSize))
        packet_id_buffer == i32_write(id, BufferNew(VarIntBufferSize))
        d2 == take(packet_id_buffer)
        d3 == take(data_buffer)
        packet_length_buffer == i32_write(Len(d2) + Len(d3), BufferNew(VarIntBufferSize))
        d1 == take(packet_length_buffer)
    IN  d1 \o d2 \o d3

\* ------------------------------------------- Byte Source: MinecraftStream

MinecraftStream_new(init_buffer_size) ==
    [buffer |-> [i \in 1..init_buffer_size |-> 0], free |-> 0, position |-> 0]

\* self.free - self.position + 1 on usize; with position > free the
\* subtraction wraps (release profile).
data_len(self) ==
    IF self.free >= self.position THEN self.free - self.position + 1
    ELSE IF self.position - self.free = 1 THEN 0
    ELSE HugeUsize

\* The same subtraction panics when overflow checks are compiled in.
data_len_overflows(self) == self.position > self.free

\* take_buffer, were it to start at the head of the array.
take_buffer_from_start(self) == SubSeq(self.buffer, 1, self.free)

take_buffer(self) == SubSeq(self.buffer, self.position + 1, self.free)

remain_len(self) == Len(self.buffer) - self.position

copy_buffer_to_start(self) ==
    LET data_len_ == self.free - self.position
    IN  [buffer |-> [i \in 1..Len(self.buffer) |->
                        IF i <= data_len_ THEN self.buffer[self.position + i]
                        ELSE self.buffer[i]],
         free |-> data_len_,
         position |-> 0]

\* ---------------------------------------------------------- field readers
\* A reader returns [res, val, s]: res is "ok", "Insufficient", "Invalid" or
\* "panic"; s is the stream as the call leaves it.

Ret(res, val, s) == [res |-> res, val |-> val, s |-> s]

RECURSIVE i32_read_loop(_, _, _, _)
i32_read_loop(stream, value, current_position, index) ==
    IF index >= stream.free THEN Ret("Insufficient", 0, stream)
    ELSE LET current_byte == stream.buffer[index + 1]
             value2 == Or32(value, Shl32(current_byte % (SEGMENT_BITS + 1), current_position))
         IN  IF (current_byte \div CONTINUE_BIT) % 2 = 0
             THEN Ret("ok", AsI32(value2), [stream EXCEPT !.position = index + 1])
             ELSE IF current_position + 7 >= 32
                  THEN Ret("Invalid", 0, stream)
                  ELSE i32_read_loop(stream, value2, current_position + 7, index + 1)

\* i32::read, were the decoder to stop after four bytes.
i32_read_four_bytes(stream) ==
    LET r == i32_read_loop(stream, [hi |-> 0, lo |-> 0], 0, stream.position)
    IN  IF r.res = "ok" /\ r.s.position - stream.position > 4
        THEN Ret("Invalid", 0, stream) ELSE r

\* i32::read, were a VarInt that needs a sixth byte reported as not yet whole.
i32_read_overlong_insufficient(stream) ==
    LET r == i32_read_loop(stream, [hi |-> 0, lo |-> 0], 0, stream.position)
    IN  IF r.res = "Invalid" THEN Ret("Insufficient", 0, stream) ELSE r

i32_read(stream) == i32_read_loop(stream, [hi |-> 0, lo |-> 0], 0, stream.position)

u8_read(stream) ==
    IF stream.position >= stream.free THEN Ret("Insufficient", 0, stream)
    ELSE Ret("ok", stream.buffer[stream.position + 1],
             [stream EXCEPT !.position = stream.position + 1])

\* oc: overflow checks are compiled in (debug profile).
u16_read(stream, oc) ==
    IF oc /\ data_len_overflows(stream) THEN Ret("panic", 0, stream)
    ELSE IF data_len(stream) < 2 THEN Ret("Insufficient", 0, stream)
    ELSE LET b1 == u8_read(stream)
         IN  IF b1.res # "ok" THEN b1
             ELSE LET b2 == u8_read(b1.s)
                  IN  IF b2.res # "ok" THEN b2
                      ELSE Ret("ok", b2.val + b1.val * 256, b2.s)

\* String::from_utf8: the well-formed byte sequences of the Unicode standard.
IsCont(b) == b >= 128 /\ b <= 191

RECURSIVE IsValidUtf8(_)
IsValidUtf8(v) ==
    IF v = <<>> THEN TRUE
    ELSE LET b == v[1]
             n == Len(v)
         IN  IF b < 128 THEN IsValidUtf8(Tail(v))
             ELSE IF b >= 194 /\ b <= 223
                  THEN n >= 2 /\ IsCont(v[2]) /\ IsValidUtf8(SubSeq(v, 3, n))
             ELSE IF b >= 224 /\ b <= 239
                  THEN /\ n >= 3
                       /\ IsCont(v[2]) /\ IsCont(v[3])
                       /\ (b = 224 => v[2] >= 160)
                       /\ (b = 237 => v[2] <= 159)
                       /\ IsValidUtf8(SubSeq(v, 4, n))
             ELSE IF b >= 240 /\ b <= 244
                  THEN /\ n >= 4
                       /\ IsCont(v[2]) /\ IsCont(v[3]) /\ IsCont(v[4])
                       /\ (b = 240 => v[2] >= 144)
                       /\ (b = 244 => v[2] <= 143)
                       /\ IsValidUtf8(SubSeq(v, 5, n))
             ELSE FALSE

\* The length is cast `as usize` (a negative one becomes huge) and compared
\* with remain_len(), the bytes up to the end of the array, not up to free.
String_read(stream) ==
    LET l == i32_read(stream)
    IN  IF l.res # "ok" THEN Ret(l.res, <<>>, l.s)
        ELSE LET length == IF l.val < 0 THEN HugeUsize ELSE l.val
             IN  IF length > remain_len(l.s) THEN Ret("Insufficient", <<>>, l.s)
                 ELSE LET vec == SubSeq(l.s.buffer, l.s.position + 1, l.s.position + length)
                          s2 == [l.s EXCEPT !.position = l.s.position + length]
                      IN  IF IsValidUtf8(vec) THEN Ret("ok", vec, s2)
                          ELSE Ret("panic", <<>>, s2)

\* bool::read: one byte through u8::read, true unless it is zero.
bool_read(stream) ==
    LET byte == u8_read(stream)
    IN  IF byte.res # "ok" THEN Ret(byte.res, FALSE, byte.s)
        ELSE Ret("ok", byte.val # 0, byte.s)

\* Uuid::read: data_len() is one more than the bytes buffered, so with 15 of
\* them the 16-byte slice is taken all the same; it panics when it runs past
\* the end of the array. Uuid::from_slice accepts every 16-byte slice.
Uuid_read(stream, oc) ==
    IF oc /\ data_len_overflows(stream) THEN Ret("panic", <<>>, stream)
    ELSE IF data_len(stream) < 16 THEN Ret("Insufficient", <<>>, stream)
    ELSE IF stream.position + 16 > Len(stream.buffer) THEN Ret("panic", <<>>, stream)
    ELSE Ret("ok", SubSeq(stream.buffer, stream.position + 1, stream.position + 16),
             [stream EXCEPT !.position = stream.position + 16])

\* MinecraftStream::read_field::<T>(): T::read(self).
read_field(T, stream, oc) ==
    CASE T = "i32" -> i32_read(stream)
      [] T = "bool" -> bool_read(stream)
      [] T = "u16" -> u16_read(stream, oc)
      [] T = "String" -> String_read(stream)
      [] T = "Uuid" -> Uuid_read(stream, oc)

NoPacket == [protocol_version |-> 0, domain |-> <<>>, server_port |-> 0, next_state |-> 0]

\* #[derive(PacketDeserializer)] on HandshakeC2SPacket: the fields in order,
\* the first error returned with the stream as the failing field left it.
HandshakeC2SPacket_from_raw(stream, oc) ==
    LET f1 == i32_read(stream)
    IN  IF f1.res # "ok" THEN Ret(f1.res, NoPacket, f1.s)
        ELSE LET f2 == String_read(f1.s)
        IN  IF f2.res # "ok" THEN Ret(f2.res, NoPacket, f2.s)
        ELSE LET f3 == u16_read(f2.s, oc)
        IN  IF f3.res # "ok" THEN Ret(f3.res, NoPacket, f3.s)
        ELSE LET f4 == i32_read(f3.s)
        IN  IF f4.res # "ok" THEN Ret(f4.res, NoPacket, f4.s)
        ELSE Ret("ok",
                 [protocol_version |-> f1.val, domain |-> f2.val,
                  server_port |-> f3.val, next_state |-> f4.val],
                 f4.s)

RECURSIVE truncate_to_zero(_)
\* truncate_to_zero, were it to keep everything before the last NUL.
truncate_at_last_zero(value) ==
    LET nuls == {k \in 1..Len(value) : value[k] = 0}
    IN  IF nuls = {} THEN value
        ELSE SubSeq(value, 1, (CHOOSE k \in nuls : \A m \in nuls : m <= k) - 1)

\* pub fn truncate_to_zero: the prefix before the first NUL.
truncate_to_zero(value) ==
    IF value = <<>> THEN <<>>
    ELSE IF Head(value) = 0 THEN <<>>
    ELSE <<Head(value)>> \o truncate_to_zero(Tail(value))

\* ------------------------------------------------------------- the router

Dot == 46

RECURSIVE trim_end_matches(_, _)
trim_end_matches(s, c) ==
    IF s # <<>> /\ s[Len(s)] = c THEN trim_end_matches(SubSeq(s, 1, Len(s) - 1), c)
    ELSE s

to_ascii_lowercase(c) == IF c >= 65 /\ c <= 90 THEN c + 32 ELSE c

\* str::eq_ignore_ascii_case, were it a plain ==.
eq_case_sensitive(a, b) == a = b

eq_ignore_ascii_case(a, b) ==
    /\ Len(a) = Len(b)
    /\ \A i \in 1..Len(a) : to_ascii_lowercase(a[i]) = to_ascii_lowercase(b[i])

\* The inner loop of find_upstream_config over one server's names.
RECURSIVE name_matches(_, _, _)
name_matches(server_names, j, domain) ==
    IF j > Len(server_names) THEN FALSE
    ELSE IF eq_ignore_ascii_case(trim_end_matches(server_names[j], Dot), domain) THEN TRUE
    ELSE name_matches(server_names, j + 1, domain)

\* The outer loop, were it to keep the last matching server instead of returning.
RECURSIVE find_from_last(_, _, _)
find_from_last(servers, i, domain) ==
    IF i > Len(servers) THEN 0
    ELSE LET later == find_from_last(servers, i + 1, domain)
         IN  IF later # 0 THEN later
             ELSE IF name_matches(servers[i].server_names, 1, domain) THEN i ELSE 0

\* The outer loop: the index of the first server with a matching name, 0 for None.
RECURSIVE find_from(_, _, _)
find_from(servers, i, domain) ==
    IF i > Len(servers) THEN 0
    ELSE IF name_matches(servers[i].server_names, 1, domain) THEN i
    ELSE find_from(servers, i + 1, domain)

find_upstream_config(domain, config) ==
    find_from(config.servers, 1, trim_end_matches(domain, Dot))

\* --------------------------------------------------------------- the inputs

None == <<>>
Some(x) == <<x>>

Str_a == <<97>>
Str_A_dot == <<65, 46>>
Str_a_nul_b == <<97, 0, 98>>
Str_b == <<98>>
Str_c == <<99>>
Str_e_acute == <<195, 169>>

ListenA == "0.0.0.0:25565"
ListenB == "0.0.0.0:25566"
ProxyA == "alpha:25565"
ProxyB == "beta:25565"

Server(l, names, p, b) ==
    [listen |-> l, server_names |-> names, proxy_pass |-> p, buffer_size |-> b]

\* mineginx.yaml: two listen addresses, a name accepted by two servers, two
\* servers that share one proxy_pass with different buffer sizes.
Config1 ==
    [handshake_timeout_ms |-> None,
     servers |-> << Server(ListenA, <<Str_A_dot>>, ProxyA, None),
                    Server(ListenB, <<Str_b, Str_a>>, ProxyB, Some(1)),
                    Server(ListenB, <<Str_e_acute, <<66, 46, 46>> >>, ProxyA, Some(2)) >>]

ProxyPasses(config) == {config.servers[i].proxy_pass : i \in 1..Len(config.servers)}

\* main(): the startup pass over config.servers. A proxy_pass that has an
\* entry is skipped; any other is resolved, and only a success is recorded, so
\* a later server naming the same proxy_pass resolves it again. `up` is the
\* set of servers at which try_resolve returns an address.
AddrOf(proxy_pass) == <<"addr", proxy_pass>>

\* One iteration of the loop: `ok` is whether try_resolve returns an address.
startup_step(server, ok, resolved) ==
    IF resolved[server.proxy_pass] # None THEN resolved
    ELSE IF ok
         THEN [resolved EXCEPT ![server.proxy_pass] =
                  Some([proxy_pass |-> server.proxy_pass,
                        addr |-> AddrOf(server.proxy_pass),
                        buffer_size |-> server.buffer_size])]
         ELSE resolved

RECURSIVE startup_resolve(_, _, _, _)
startup_resolve(servers, i, up, resolved) ==
    IF i > Len(servers) THEN resolved
    ELSE startup_resolve(servers, i + 1, up,
                         startup_step(servers[i], i \in up, resolved))

\* The handshakes a client may send.
MaxExtra == 2
Packet(pv, d, port, ns) ==
    [protocol_version |-> pv, domain |-> d, server_port |-> port, next_state |-> ns]

\* Frames of 7 to 19 bytes; domains routed to each server and to none.
Packets ==
    { Packet(16, <<>>, 65535, 2),
      Packet(16, Str_a, 65535, 2),
      Packet(16, Str_b, 25565, 1),
      Packet(16, Str_c, 65535, 2),
      Packet(-1, Str_e_acute, 65535, 2),
      Packet(16, Str_A_dot, 65535, -1599979007),
      Packet(16, Str_a_nul_b, 65535, -1599979007),
      Packet(-1, Str_a_nul_b, 65535, -1599979007) }

\* The bytes a client sends after its handshake: 1, 2, ...
Extras == {[i \in 1..n |-> i] : n \in 0..MaxExtra}

\* Streams that do not start with a canonical handshake frame.
MalformedStreams ==
    { <<>>,
      <<9, 0, 16, 3, 110>>,                          \* the client closes inside the frame
      <<255, 255, 255, 255, 255, 1>>,                \* a length of more than 5 bytes
      <<255, 255, 255, 255, 15, 0>>,                 \* length -1
      <<255, 255, 255, 255, 15>>,                    \* length -1, then the client closes
      <<1, 128, 128, 128, 128, 128, 0>>,             \* a packet id of more than 5 bytes
      <<128, 1, 11>>,                                \* length 128, packet id 11
      <<9, 1, 16, 3, 110, 101, 116, 255, 255, 2>>,   \* a handshake payload under packet id 1
      <<6, 255, 255, 255, 255, 15, 7>>,              \* packet id -1, one byte of payload
      <<7, 0, 16, 2, 195, 97, 99, 221, 2>>,          \* a domain that is not UTF-8
      <<3, 0, 16, 3, 110, 101, 116, 255, 255, 2>>,   \* declared length too short
      <<4, 0, 16, 5, 1>>,                            \* a string longer than its frame
      <<8, 128, 0, 16, 1, 97, 99, 221, 2>> }         \* packet id 0 on 2 bytes

ClientStreams ==
    {make_raw(0, p) \o e : p \in Packets, e \in Extras} \union MalformedStreams

\* The bytes an upstream sends: 7, 8, ...
MaxUpstream == 2
UpstreamStreams == {[i \in 1..n |-> 6 + i] : n \in 0..MaxUpstream}

\* ------------------------------------------------------------------- state

VARIABLES
    config,       \* MineginxConfig, read-only after load
    resolved,     \* the cache: proxy_pass -> Option<ResolvedUpstream>
    wire,         \* the bytes the client sent that the proxy has not read yet
    pc,           \* where handle_client stands
    outcome,      \* why handle_client returned
    error,        \* the ReadingError of a failed handshake
    minecraft,    \* the MinecraftStream of the connection
    fill,         \* the pending fill_buffer_from_source: [required, ret]
    signature,    \* the Signature read so far
    handshake,    \* the decoded HandshakeC2SPacket
    server_desc,  \* Option<MinecraftServerDescription>: the matched route
    upstream,     \* Option<ResolvedUpstream>: the entry the connection uses
    contact,      \* what handle_client did to the upstream side, in order
    up_out,       \* the bytes written to the upstream connection
    up_wire,      \* the bytes the upstream sent that the proxy has not read yet
    cli_out,      \* the bytes written to the client connection
    fwd,          \* the two forward_stream tasks: direction -> its locals
    chan,         \* the oneshot channels: direction that holds the Sender -> state
    sent,         \* history: everything the client sends on this connection
    up_sent,      \* history: everything the upstream sends on this connection
    last_read,    \* history: how the last read of the handshake phase ended
    fin,          \* pure-function checks: the input drawn
    fout,         \* pure-function checks: what the function returned
    fpc,          \* pure-function checks: the step reached
    tasks,        \* the server: connection -> the state of its handle_client task
    listener,     \* the server: the startup pass of main, then the accept loop
    process       \* the server: "running", or "crashed"

connVars == <<wire, minecraft, fill, signature, handshake>>
routeVars == <<server_desc, upstream>>
ioVars == <<up_out, up_wire, cli_out>>
fwdVars == <<fwd, chan>>
vars == <<config, resolved, wire, pc, outcome, error, minecraft, fill, signature,
          handshake, server_desc, upstream, contact, up_out, up_wire, cli_out,
          fwd, chan, sent, up_sent, last_read, fin, fout, fpc,
          tasks, listener, process>>
harness == <<fin, fout, fpc, tasks, listener, process>>

\* No server: none of the actions of the accept loop and its tasks is enabled.
NoServer ==
    /\ tasks = <<>>
    /\ listener = "off"
    /\ process = "running"

Directions == {"c2s", "s2c"}
Opposite(d) == IF d = "c2s" THEN "s2c" ELSE "c2s"

\* The locals of a forward_stream task that has not been spawned.
Unspawned ==
    [pc |-> "unspawned", closed |-> FALSE, close |-> FALSE, close_by_other |-> FALSE,
     buf |-> <<>>, read |-> <<>>, late |-> 0, late_data |-> FALSE, signals |-> 0]

Init ==
    /\ config = Config1
    /\ \E up \in SUBSET (1..Len(config.servers)) :
          resolved = startup_resolve(config.servers, 1, up,
                                     [p \in ProxyPasses(config) |-> None])
    /\ wire \in ClientStreams
    /\ sent = wire
    /\ up_sent = <<>>
    /\ last_read = "none"
    /\ fin = <<>>
    /\ fout = <<>>
    /\ fpc = "off"
    /\ NoServer
    /\ pc = "accepted"
    /\ outcome = "running"
    /\ error = "none"
    /\ minecraft = MinecraftStream_new(0)
    /\ fill = [required |-> 0, ret |-> "none"]
    /\ signature = [length |-> 0, packet_id |-> 0]
    /\ handshake = NoPacket
    /\ server_desc = None
    /\ upstream = None
    /\ contact = <<>>
    /\ up_out = <<>>
    /\ up_wire = <<>>
    /\ cli_out = <<>>
    /\ fwd = [d \in Directions |-> Unspawned]
    /\ chan = [d \in Directions |-> "none"]

\* handle_client returns.
Return(why, err) ==
    /\ pc' = "done"
    /\ outcome' = why
    /\ error' = err

\* handle_client, lines 57-66: set_nodelay, then the MinecraftStream.
Accepted ==
    /\ pc = "accepted"
    /\ \/ /\ Return("nodelay_failed", "none")
          /\ UNCHANGED minecraft
       \/ /\ minecraft' = MinecraftStream_new(InitBufferSize)
          /\ pc' = "sig_length"
          /\ UNCHANGED <<outcome, error>>
    /\ UNCHANGED <<harness, config, sent, last_read, up_sent, resolved, wire, fill, signature, handshake,
                   routeVars, contact, ioVars, fwdVars>>

\* fill_buffer_from_source up to its first read: compaction, or expand_buffer,
\* which is todo!() and panics.
FillBegin(required, ret) ==
    IF minecraft.free >= Len(minecraft.buffer) /\ minecraft.position = 0
    THEN /\ Return("panic", "none")
         /\ UNCHANGED <<minecraft, fill>>
    ELSE /\ minecraft' = IF minecraft.free >= Len(minecraft.buffer)
                         THEN copy_buffer_to_start(minecraft)
                         ELSE minecraft
         /\ fill' = [required |-> required, ret |-> ret]
         /\ pc' = "fill"
         /\ UNCHANGED <<outcome, error>>

\* read_signature, were a malformed length to be retried after a refill like
\* one that is not yet whole.
ReadSignatureLengthRetriesInvalid ==
    /\ pc = "sig_length"
    /\ LET r == i32_read(minecraft)
       IN  CASE r.res = "ok" ->
                  /\ signature' = [signature EXCEPT !.length = r.val]
                  /\ minecraft' = r.s
                  /\ pc' = "sig_id"
                  /\ UNCHANGED <<fill, outcome, error>>
             [] OTHER ->
                  /\ FillBegin(0, "sig_length")
                  /\ UNCHANGED signature
    /\ UNCHANGED <<harness, config, sent, last_read, up_sent, resolved, wire, handshake, routeVars, contact, ioVars, fwdVars>>

\* read_signature, the first loop: the length.
ReadSignatureLength ==
    /\ pc = "sig_length"
    /\ LET r == i32_read(minecraft)
       IN  CASE r.res = "ok" ->
                  /\ signature' = [signature EXCEPT !.length = r.val]
                  /\ minecraft' = r.s
                  /\ pc' = "sig_id"
                  /\ UNCHANGED <<fill, outcome, error>>
             [] r.res = "Invalid" ->
                  /\ Return("handshake_failed", "Invalid")
                  /\ UNCHANGED <<signature, minecraft, fill>>
             [] OTHER ->
                  /\ FillBegin(0, "sig_length")
                  /\ UNCHANGED signature
    /\ UNCHANGED <<harness, config, sent, last_read, up_sent, resolved, wire, handshake, routeVars, contact, ioVars, fwdVars>>

\* read_signature, were the packet id decoded without moving the cursor past it.
ReadSignatureIdPeeks ==
    /\ pc = "sig_id"
    /\ LET r == i32_read(minecraft)
       IN  CASE r.res = "ok" ->
                  /\ signature' = [signature EXCEPT !.packet_id = r.val]
                  /\ UNCHANGED <<minecraft, fill>>
                  /\ IF signature.length < 0
                     THEN Return("handshake_failed", "Invalid")
                     ELSE IF r.val # 0
                          THEN Return("handshake_failed", "PacketId")
                          ELSE pc' = "read_data" /\ UNCHANGED <<outcome, error>>
             [] r.res = "Invalid" ->
                  /\ Return("handshake_failed", "Invalid")
                  /\ UNCHANGED <<signature, minecraft, fill>>
             [] OTHER ->
                  /\ FillBegin(0, "sig_id")
                  /\ UNCHANGED signature
    /\ UNCHANGED <<harness, config, sent, last_read, up_sent, resolved, wire, handshake, routeVars, contact, ioVars, fwdVars>>

\* read_handshake_packet, were read_data called whatever the packet id.
ReadSignatureIdUnchecked ==
    /\ pc = "sig_id"
    /\ LET r == i32_read(minecraft)
       IN  CASE r.res = "ok" ->
                  /\ signature' = [signature EXCEPT !.packet_id = r.val]
                  /\ minecraft' = r.s
                  /\ UNCHANGED fill
                  /\ IF signature.length < 0
                     THEN Return("handshake_failed", "Invalid")
                     ELSE pc' = "read_data" /\ UNCHANGED <<outcome, error>>
             [] r.res = "Invalid" ->
                  /\ Return("handshake_failed", "Invalid")
                  /\ UNCHANGED <<signature, minecraft, fill>>
             [] OTHER ->
                  /\ FillBegin(0, "sig_id")
                  /\ UNCHANGED signature
    /\ UNCHANGED <<harness, config, sent, last_read, up_sent, resolved, wire, handshake, routeVars, contact, ioVars, fwdVars>>

\* read_signature, the second loop and the length check; then the packet id
\* check of read_handshake_packet.
ReadSignatureId ==
    /\ pc = "sig_id"
    /\ LET r == i32_read(minecraft)
       IN  CASE r.res = "ok" ->
                  /\ signature' = [signature EXCEPT !.packet_id = r.val]
                  /\ minecraft' = r.s
                  /\ UNCHANGED fill
                  /\ IF signature.length < 0
                     THEN Return("handshake_failed", "Invalid")
                     ELSE IF r.val # 0
                          THEN Return("handshake_failed", "PacketId")
                          ELSE pc' = "read_data" /\ UNCHANGED <<outcome, error>>
             [] r.res = "Invalid" ->
                  /\ Return("handshake_failed", "Invalid")
                  /\ UNCHANGED <<signature, minecraft, fill>>
             [] OTHER ->
                  /\ FillBegin(0, "sig_id")
                  /\ UNCHANGED signature
    /\ UNCHANGED <<harness, config, sent, last_read, up_sent, resolved, wire, handshake, routeVars, contact, ioVars, fwdVars>>

\* read_data up to from_raw: refill when the signature asks for more than data_len().
ReadData ==
    /\ pc = "read_data"
    /\ IF signature.length > data_len(minecraft)
       THEN FillBegin(signature.length, "from_raw")
       ELSE /\ pc' = "from_raw"
            /\ UNCHANGED <<minecraft, fill, outcome, error>>
    /\ UNCHANGED <<harness, config, sent, last_read, up_sent, resolved, wire, signature, handshake, routeVars,
                   contact, ioVars, fwdVars>>

\* One self.client.read(&mut self.buffer[free..]) of the fill loop completes.
recv(self, bytes) ==
    [self EXCEPT !.buffer = [i \in 1..Len(self.buffer) |->
                                IF i > self.free /\ i <= self.free + Len(bytes)
                                THEN bytes[i - self.free] ELSE self.buffer[i]],
                 !.free = self.free + Len(bytes)]

FillRead ==
    /\ pc = "fill"
    /\ LET room == Len(minecraft.buffer) - minecraft.free
       IN  \/ \* Ok(size), size > 0
              /\ \E size \in 1..room :
                    /\ size <= Len(wire)
                    /\ minecraft' = recv(minecraft, SubSeq(wire, 1, size))
                    /\ wire' = SubSeq(wire, size + 1, Len(wire))
                    /\ pc' = IF data_len(minecraft') < fill.required
                             THEN "fill" ELSE fill.ret
                    /\ last_read' = "data"
              /\ UNCHANGED <<outcome, error>>
           \/ \* Ok(0): the client closed, or the slice to read into is empty
              /\ (wire = <<>> \/ room = 0)
              /\ last_read' = IF room = 0 THEN "empty_slice" ELSE "eof"
              /\ Return("handshake_failed", "Closed")
              /\ UNCHANGED <<minecraft, wire>>
           \/ \* Err(_): the transport failed
              /\ last_read' = "err"
              /\ Return("handshake_failed", "Closed")
              /\ UNCHANGED <<minecraft, wire>>
    /\ UNCHANGED <<harness, config, sent, up_sent, resolved, fill, signature, handshake, routeVars,
                   contact, ioVars, fwdVars>>

\* timeout(.., read_handshake_packet): the deadline passes while a read is pending.
HandshakeTimeout ==
    /\ pc = "fill"
    /\ Return("handshake_timeout", "none")
    /\ UNCHANGED <<harness, config, sent, last_read, up_sent, resolved, connVars, routeVars, contact, ioVars, fwdVars>>

\* T::from_raw(self) at the end of read_data.
FromRaw ==
    /\ pc = "from_raw"
    /\ \E oc \in BOOLEAN :
          LET r == HandshakeC2SPacket_from_raw(minecraft, oc)
          IN  /\ minecraft' = r.s
              /\ CASE r.res = "ok" ->
                        /\ handshake' = r.val
                        /\ pc' = "route"
                        /\ UNCHANGED <<outcome, error>>
                   [] r.res = "panic" ->
                        /\ Return("panic", "none")
                        /\ UNCHANGED handshake
                   [] OTHER ->
                        /\ Return("handshake_failed", r.res)
                        /\ UNCHANGED handshake
    /\ UNCHANGED <<harness, config, sent, last_read, up_sent, resolved, wire, fill, signature, routeVars, contact, ioVars, fwdVars>>

\* handle_client, lines 84-91, were a domain without a route sent to the first server.
RouteDefaultsToFirst ==
    /\ pc = "route"
    /\ LET domain == truncate_to_zero(handshake.domain)
           found == find_upstream_config(domain, config)
       IN  /\ server_desc' = Some(config.servers[IF found = 0 THEN 1 ELSE found])
           /\ pc' = "lookup"
           /\ UNCHANGED <<outcome, error>>
    /\ UNCHANGED <<harness, config, sent, last_read, up_sent, resolved, connVars, upstream, contact, ioVars, fwdVars>>

\* handle_client, lines 84-91.
Route ==
    /\ pc = "route"
    /\ LET domain == truncate_to_zero(handshake.domain)
           found == find_upstream_config(domain, config)
       IN  IF found = 0
           THEN /\ Return("no_upstream", "none")
                /\ UNCHANGED server_desc
           ELSE /\ server_desc' = Some(config.servers[found])
                /\ pc' = "lookup"
                /\ UNCHANGED <<outcome, error>>
    /\ UNCHANGED <<harness, config, sent, last_read, up_sent, resolved, connVars, upstream, contact, ioVars, fwdVars>>

\* handle_client, lines 95-98: the cache under its read lock.
CacheLookup ==
    /\ pc = "lookup"
    /\ LET hit == resolved[server_desc[1].proxy_pass]
       IN  IF hit # None
           THEN upstream' = hit /\ pc' = "connect"
           ELSE upstream' = None /\ pc' = "resolve"
    /\ UNCHANGED <<harness, config, sent, last_read, up_sent, resolved, connVars, server_desc, outcome, error,
                   contact, ioVars, fwdVars>>

\* handle_client, lines 103-110 and 115-118: try_resolve on a cache miss.
Resolve ==
    /\ pc = "resolve"
    /\ contact' = Append(contact, "resolve")
    /\ \/ /\ upstream' = Some([proxy_pass |-> server_desc[1].proxy_pass,
                               addr |-> AddrOf(server_desc[1].proxy_pass),
                               buffer_size |-> server_desc[1].buffer_size])
          /\ pc' = "insert"
          /\ UNCHANGED <<outcome, error>>
       \/ /\ Return("resolve_failed", "none")
          /\ UNCHANGED upstream
    /\ UNCHANGED <<harness, config, sent, last_read, up_sent, resolved, connVars, server_desc, ioVars, fwdVars>>

\* handle_client, lines 111-113: the insert under the write lock.
CacheInsert ==
    /\ pc = "insert"
    /\ resolved' = [resolved EXCEPT ![server_desc[1].proxy_pass] = upstream]
    /\ pc' = "connect"
    /\ UNCHANGED <<harness, config, sent, last_read, up_sent, connVars, routeVars, outcome, error, contact, ioVars, fwdVars>>

\* handle_client, lines 126-136: the dial, then set_nodelay.
Connect ==
    /\ pc = "connect"
    /\ contact' = Append(contact, "dial")
    /\ \/ Return("connect_failed", "none")
       \/ Return("upstream_nodelay_failed", "none")
       \/ pc' = "replay" /\ UNCHANGED <<outcome, error>>
    /\ UNCHANGED <<harness, config, sent, last_read, up_sent, resolved, connVars, routeVars, ioVars, fwdVars>>

\* A write_all that fails may have written any proper prefix of its bytes.
ProperPrefixes(bytes) == {SubSeq(bytes, 1, k) : k \in 0..(Len(bytes) - 1)}

\* handle_client, were the domain cut for routing replayed in place of the
\* domain received.
ReplayHandshakeTruncated ==
    /\ pc = "replay"
    /\ LET packet == make_raw(0, [handshake EXCEPT !.domain = truncate_to_zero(@)])
       IN  \/ /\ up_out' = up_out \o packet
              /\ pc' = "flush"
              /\ UNCHANGED <<outcome, error>>
           \/ /\ \E part \in ProperPrefixes(packet) : up_out' = up_out \o part
              /\ Return("replay_failed", "none")
    /\ UNCHANGED <<harness, config, sent, last_read, up_sent, resolved, connVars, routeVars, contact, up_wire, cli_out,
                   fwdVars>>

\* handle_client, lines 137-144: the handshake is encoded again and sent.
ReplayHandshake ==
    /\ pc = "replay"
    /\ LET packet == make_raw(0, handshake)
       IN  \/ /\ up_out' = up_out \o packet
              /\ pc' = "flush"
              /\ UNCHANGED <<outcome, error>>
           \/ /\ \E part \in ProperPrefixes(packet) : up_out' = up_out \o part
              /\ Return("replay_failed", "none")
    /\ UNCHANGED <<harness, config, sent, last_read, up_sent, resolved, connVars, routeVars, contact, up_wire, cli_out,
                   fwdVars>>

\* handle_client, line 155: the size of the forward buffers, taken from the
\* entry the connection dials.
DefaultBufferSize == 8192

buf_size(entry) ==
    IF entry[1].buffer_size = None THEN DefaultBufferSize ELSE entry[1].buffer_size[1]

\* The locals of forward_stream when the task is spawned.
Spawned ==
    [pc |-> "first", closed |-> FALSE, close |-> TRUE, close_by_other |-> TRUE,
     buf |-> <<>>, read |-> <<>>, late |-> 0, late_data |-> FALSE, signals |-> 0]

\* handle_client, were the bytes buffered past the handshake left unsent.
FlushBufferSkipped ==
    /\ pc = "flush"
    /\ IF minecraft.position > minecraft.free
       THEN /\ Return("flush_panic", "none")
            /\ UNCHANGED <<ioVars, fwdVars, up_sent>>
       ELSE /\ up_wire' \in UpstreamStreams
            /\ up_sent' = up_wire'
            /\ fwd' = [d \in Directions |-> Spawned]
            /\ chan' = [d \in Directions |-> "empty"]
            /\ pc' = "forward"
            /\ UNCHANGED <<outcome, error, cli_out, up_out>>
    /\ UNCHANGED <<harness, config, sent, last_read, resolved, connVars, routeVars, contact>>

\* handle_client, lines 146-163: the bytes buffered past the handshake are
\* sent, the streams are split and the two directions are spawned.
FlushBuffer ==
    /\ pc = "flush"
    /\ IF minecraft.position > minecraft.free
       THEN /\ Return("flush_panic", "none")
            /\ UNCHANGED <<ioVars, fwdVars, up_sent>>
       ELSE LET buffered == take_buffer(minecraft)
            IN  \/ /\ up_out' = up_out \o buffered
                   /\ up_wire' \in UpstreamStreams
                   /\ up_sent' = up_wire'
                   /\ fwd' = [d \in Directions |-> Spawned]
                   /\ chan' = [d \in Directions |-> "empty"]
                   /\ pc' = "forward"
                   /\ UNCHANGED <<outcome, error, cli_out>>
                \/ /\ \E part \in ProperPrefixes(buffered) : up_out' = up_out \o part
                   /\ Return("flush_failed", "none")
                   /\ UNCHANGED <<up_wire, cli_out, fwdVars, up_sent>>
    /\ UNCHANGED <<harness, config, sent, last_read, resolved, connVars, routeVars, contact>>

\* ------------------------------------------------------------ forward_stream

Stopped(d) == fwd[d].pc = "stopped"

\* sender.send(()): the value is stored unless the Receiver is gone.
Sent(d) == IF fwd[Opposite(d)].close_by_other THEN "sent" ELSE chan[d]

\* The first pass of the loop: close_by_other is taken and polled once, and the
\* task returns when the other direction has signalled or dropped its Sender.
ForwardFirst(d) ==
    /\ pc = "forward"
    /\ fwd[d].pc = "first"
    /\ LET closed == chan[Opposite(d)] \in {"sent", "closed"}
       IN  IF closed
           THEN /\ fwd' = [fwd EXCEPT ![d].pc = "stopped", ![d].closed = TRUE,
                                      ![d].close_by_other = FALSE, ![d].close = FALSE]
                /\ chan' = [chan EXCEPT ![d] = IF @ = "empty" THEN "closed" ELSE @]
           ELSE /\ fwd' = [fwd EXCEPT ![d].pc = "read", ![d].close_by_other = FALSE]
                /\ UNCHANGED chan
    /\ UNCHANGED <<harness, config, sent, last_read, up_sent, resolved, connVars, pc, outcome, error, routeVars, contact,
                   ioVars>>

\* The bytes direction d has yet to read, and those it has written.
Source(d) == IF d = "c2s" THEN wire ELSE up_wire

\* reader.read(&mut buf) completes, were Ok(0) forwarded like any other size:
\* the empty write succeeds and the loop reads again.
ForwardReadEofForwarded(d) ==
    /\ pc = "forward"
    /\ fwd[d].pc = "read"
    /\ LET after == Stopped(Opposite(d))
           late == IF after THEN fwd[d].late + 1 ELSE fwd[d].late
       IN  \/ /\ \E size \in 1..ForwardBufferSize :
                    /\ size <= Len(Source(d))
                    /\ fwd' = [fwd EXCEPT ![d].pc = "write",
                                          ![d].buf = SubSeq(Source(d), 1, size),
                                          ![d].read = @ \o SubSeq(Source(d), 1, size),
                                          ![d].late = late,
                                          ![d].late_data = @ \/ after]
                    /\ IF d = "c2s"
                       THEN wire' = SubSeq(wire, size + 1, Len(wire)) /\ UNCHANGED up_wire
                       ELSE up_wire' = SubSeq(up_wire, size + 1, Len(up_wire))
                            /\ UNCHANGED wire
              /\ UNCHANGED chan
           \/ /\ (Source(d) = <<>> \/ after)
              /\ fwd' = [fwd EXCEPT ![d].pc = "write", ![d].buf = <<>>, ![d].late = late]
              /\ UNCHANGED <<chan, wire, up_wire>>
           \/ /\ fwd' = [fwd EXCEPT ![d].pc = "stopped", ![d].close = FALSE,
                                    ![d].late = late, ![d].signals = @ + 1]
              /\ chan' = [chan EXCEPT ![d] = Sent(d)]
              /\ UNCHANGED <<wire, up_wire>>
    /\ UNCHANGED <<harness, config, sent, last_read, up_sent, resolved, minecraft, fill, signature, handshake, pc, outcome,
                   error, routeVars, contact, up_out, cli_out>>

\* reader.read(&mut buf) completes; on Ok(0) close is taken and signalled, the
\* empty write_all returns at once and the loop returns on `closed`.
ForwardRead(d) ==
    /\ pc = "forward"
    /\ fwd[d].pc = "read"
    /\ LET after == Stopped(Opposite(d))
           late == IF after THEN fwd[d].late + 1 ELSE fwd[d].late
       IN  \/ \* Ok(size), size > 0
              /\ \E size \in 1..ForwardBufferSize :
                    /\ size <= Len(Source(d))
                    /\ fwd' = [fwd EXCEPT ![d].pc = "write",
                                          ![d].buf = SubSeq(Source(d), 1, size),
                                          ![d].read = @ \o SubSeq(Source(d), 1, size),
                                          ![d].late = late,
                                          ![d].late_data = @ \/ after]
                    /\ IF d = "c2s"
                       THEN wire' = SubSeq(wire, size + 1, Len(wire)) /\ UNCHANGED up_wire
                       ELSE up_wire' = SubSeq(up_wire, size + 1, Len(up_wire))
                            /\ UNCHANGED wire
              /\ UNCHANGED chan
           \/ \* Ok(0): the peer closed, having sent everything or seen our half-close
              /\ (Source(d) = <<>> \/ after)
              /\ fwd' = [fwd EXCEPT ![d].pc = "stopped", ![d].closed = TRUE,
                                    ![d].close = FALSE, ![d].buf = <<>>,
                                    ![d].late = late, ![d].signals = @ + 1]
              /\ chan' = [chan EXCEPT ![d] = Sent(d)]
              /\ UNCHANGED <<wire, up_wire>>
           \/ \* Err(_)
              /\ fwd' = [fwd EXCEPT ![d].pc = "stopped", ![d].close = FALSE,
                                    ![d].late = late, ![d].signals = @ + 1]
              /\ chan' = [chan EXCEPT ![d] = Sent(d)]
              /\ UNCHANGED <<wire, up_wire>>
    /\ UNCHANGED <<harness, config, sent, last_read, up_sent, resolved, minecraft, fill, signature, handshake, pc, outcome,
                   error, routeVars, contact, up_out, cli_out>>

\* The write, were it writer.write(..): one call that may take only a part of
\* the chunk and still return Ok.
ForwardWriteOnce(d) ==
    /\ pc = "forward"
    /\ fwd[d].pc = "write"
    /\ \/ /\ \E part \in ProperPrefixes(fwd[d].buf) \union {fwd[d].buf} :
                IF d = "c2s"
                THEN up_out' = up_out \o part /\ UNCHANGED cli_out
                ELSE cli_out' = cli_out \o part /\ UNCHANGED up_out
          /\ fwd' = [fwd EXCEPT ![d].pc = "read", ![d].buf = <<>>]
          /\ UNCHANGED chan
       \/ /\ UNCHANGED <<up_out, cli_out>>
          /\ fwd' = [fwd EXCEPT ![d].pc = "stopped", ![d].close = FALSE,
                                ![d].signals = @ + 1]
          /\ chan' = [chan EXCEPT ![d] = Sent(d)]
    /\ UNCHANGED <<harness, config, sent, last_read, up_sent, resolved, connVars, pc, outcome, error, routeVars, contact,
                   up_wire>>

\* writer.write_all(&buf[..size]) completes.
ForwardWrite(d) ==
    /\ pc = "forward"
    /\ fwd[d].pc = "write"
    /\ \/ \* Ok(_): back to the top of the loop, then to the read
          /\ IF d = "c2s"
             THEN up_out' = up_out \o fwd[d].buf /\ UNCHANGED cli_out
             ELSE cli_out' = cli_out \o fwd[d].buf /\ UNCHANGED up_out
          /\ fwd' = [fwd EXCEPT ![d].pc = "read", ![d].buf = <<>>]
          /\ UNCHANGED chan
       \/ \* Err(_)
          /\ \E part \in ProperPrefixes(fwd[d].buf) :
                IF d = "c2s"
                THEN up_out' = up_out \o part /\ UNCHANGED cli_out
                ELSE cli_out' = cli_out \o part /\ UNCHANGED up_out
          /\ fwd' = [fwd EXCEPT ![d].pc = "stopped", ![d].close = FALSE,
                                ![d].signals = @ + 1]
          /\ chan' = [chan EXCEPT ![d] = Sent(d)]
    /\ UNCHANGED <<harness, config, sent, last_read, up_sent, resolved, connVars, pc, outcome, error, routeVars, contact,
                   up_wire>>

\* handle_client, lines 165-166, were the two tasks raced (select!) instead of joined.
JoinEither ==
    /\ pc = "forward"
    /\ \E d \in Directions : Stopped(d)
    /\ Return("closed", "none")
    /\ UNCHANGED <<harness, config, sent, last_read, up_sent, resolved, connVars, routeVars, contact, ioVars, fwdVars>>

\* handle_client, lines 165-166: both tasks are joined, then "connection closed".
Join ==
    /\ pc = "forward"
    /\ \A d \in Directions : Stopped(d)
    /\ Return("closed", "none")
    /\ UNCHANGED <<harness, config, sent, last_read, up_sent, resolved, connVars, routeVars, contact, ioVars, fwdVars>>

Next ==
    \/ Accepted
    \/ ReadSignatureLength
    \/ ReadSignatureId
    \/ ReadData
    \/ FillRead
    \/ HandshakeTimeout
    \/ FromRaw
    \/ Route
    \/ CacheLookup
    \/ Resolve
    \/ CacheInsert
    \/ Connect
    \/ ReplayHandshake
    \/ FlushBuffer
    \/ \E d \in Directions : ForwardFirst(d)
    \/ \E d \in Directions : ForwardRead(d)
    \/ \E d \in Directions : ForwardWrite(d)
    \/ Join

Spec == Init /\ [][Next]_vars

\* The tasks are scheduled and the transport answers: a spawned task reaches
\* its first read, a write_all returns (done or failed), and a read returns once
\* the other direction has stopped and shut its write half, the peer then
\* closing or resetting its side.
ForwardFairness ==
    \A d \in Directions :
        /\ WF_vars(ForwardFirst(d))
        /\ WF_vars(ForwardWrite(d))
        /\ WF_vars(ForwardRead(d) /\ Stopped(Opposite(d)))

FairSpec == Spec /\ ForwardFairness /\ WF_vars(Join)

\* What the routing rule says of a name and a domain, stated without the code.
CutAtNul(s) ==
    LET nuls == {k \in 1..Len(s) : s[k] = 0}
    IN  IF nuls = {} THEN s
        ELSE SubSeq(s, 1, (CHOOSE k \in nuls : \A m \in nuls : k <= m) - 1)

StripDots(s) ==
    LET kept == {k \in 1..Len(s) : s[k] # 46}
    IN  IF kept = {} THEN <<>>
        ELSE SubSeq(s, 1, CHOOSE k \in kept : \A m \in kept : m <= k)

FoldCase(s) == [i \in 1..Len(s) |-> IF s[i] \in 65..90 THEN s[i] + 32 ELSE s[i]]

SameName(name, domain) == FoldCase(StripDots(name)) = FoldCase(StripDots(CutAtNul(domain)))

ServerMatches(server, domain) ==
    \E j \in 1..Len(server.server_names) : SameName(server.server_names[j], domain)

MatchingServers(servers, domain) ==
    {i \in 1..Len(servers) : ServerMatches(servers[i], domain)}

\* ------------------------------------------------------ reading the handshake

\* The client sends a canonical handshake frame, then anything.
CanonicalStreams == {make_raw(0, p) \o e : p \in Packets, e \in Extras}
WellFormed == sent \in CanonicalStreams

\* The packet a canonical stream was made from.
PacketSent ==
    [s \in CanonicalStreams |->
        CHOOSE p \in Packets : \E e \in Extras : s = make_raw(0, p) \o e]

\* read_handshake_packet has returned to handle_client.
HandshakeReturned ==
    pc \notin {"accepted", "sig_length", "sig_id", "read_data", "fill", "from_raw"}
    /\ ~(pc = "done" /\ outcome = "nodelay_failed")

\* The read was cut short from outside: the timeout fired or the transport failed.
CutShort == outcome = "handshake_timeout" \/ last_read = "err"

\* What read_packet returns when all of `bytes` is in the buffer before it starts.
InOneRead(bytes) ==
    LET whole == recv(MinecraftStream_new(Len(bytes)), bytes)
        length == i32_read(whole)
        packet_id == i32_read(length.s)
    IN  HandshakeC2SPacket_from_raw(packet_id.s, FALSE)

\* C1: for every well-formed handshake frame and every split of its bytes
\* into successive reads, down to one byte at a time, read_packet returns the
\* packet it returns when the whole frame arrives in one read.
C1_FragmentationInvariance ==
    (WellFormed /\ HandshakeReturned /\ ~CutShort) =>
        /\ outcome \notin {"handshake_failed", "panic"}
        /\ handshake = InOneRead(sent).val

\* C10: a handshake packet p written by make_raw(0, p) and read back by
\* read_packet is p again, field by field.
C10_PacketRoundTrip ==
    (WellFormed /\ HandshakeReturned /\ ~CutShort) =>
        (error = "none" /\ handshake = PacketSent[sent])

\* --------------------------------------------------- the upstream connection

\* The resolver or the upstream has been reached on behalf of this connection.
UpstreamContacted == contact # <<>> \/ up_out # <<>> \/ up_sent # <<>> \/ cli_out # <<>>

\* read_handshake_packet returned Ok within the timeout.
HandshakeDecoded ==
    /\ HandshakeReturned
    /\ outcome \notin {"handshake_failed", "handshake_timeout", "panic"}

\* C2: no upstream is resolved, dialed or written to before the handshake has
\* been decoded within the timeout and a route has matched its domain; a
\* connection that times out, fails to decode or matches no route ends without
\* any upstream contact.
C2_NoContactBeforeRoute ==
    /\ UpstreamContacted =>
          /\ HandshakeDecoded
          /\ MatchingServers(config.servers, handshake.domain) # {}
          /\ server_desc # None
          /\ ServerMatches(server_desc[1], handshake.domain)
    /\ (pc = "done" /\ outcome \in {"handshake_timeout", "handshake_failed", "no_upstream", "panic"})
          => ~UpstreamContacted

\* A connection that resolved, dialed and wrote to its upstream.
C2_Witness ==
    /\ contact = <<"resolve", "dial">>
    /\ up_out # <<>>
    /\ HandshakeDecoded
    /\ server_desc = Some(config.servers[1])

\* The number of bytes the handshake reader took from the client.
Received == Len(sent) - Len(wire) - Len(fwd["c2s"].read)

\* The bytes the handshake reader took and did not consume, as the client sent them.
BufferedPastHandshake ==
    SubSeq(sent, Received - (minecraft.free - minecraft.position) + 1, Received)

IsPrefix(a, b) == Len(a) <= Len(b) /\ a = SubSeq(b, 1, Len(a))

\* C3: the upstream receives first the handshake frame encoded again, then
\* exactly the bytes read past the handshake in the order the client sent
\* them, and no forwarding direction reads or writes before both writes are
\* complete.
C3_ReplayOrder ==
    LET replay == make_raw(0, handshake) \o BufferedPastHandshake
        forwarding == pc = "forward" \/ (pc = "done" /\ outcome = "closed")
    IN  /\ (\E d \in Directions : fwd[d] # Unspawned) => forwarding
        /\ (up_out # <<>> /\ ~forwarding) =>
              /\ IsPrefix(up_out, replay)
              /\ cli_out = <<>> /\ up_sent = <<>>
              /\ pc = "flush" => up_out = make_raw(0, handshake)
        /\ pc = "replay" => up_out = <<>>
        /\ forwarding =>
              /\ IsPrefix(replay, up_out)
              /\ IsPrefix(SubSeq(up_out, Len(replay) + 1, Len(up_out)), fwd["c2s"].read)

\* Forwarding has begun after a handshake with bytes buffered behind it, more
\* bytes still to come, and the upstream holds the frame and the buffered bytes.
C3_Witness ==
    /\ pc = "forward"
    /\ BufferedPastHandshake # <<>>
    /\ wire # <<>>
    /\ fwd["c2s"].read = <<>>
    /\ up_out = make_raw(0, handshake) \o BufferedPastHandshake

\* ------------------------------------------------------------- forwarding

Forwarding == pc = "forward" \/ (pc = "done" /\ outcome = "closed")

\* C4: once a direction has stopped and shut its write half, and the peer
\* answers the half-close with EOF or a reset rather than more data, at most
\* one read of the opposite direction completes, and that read stops it; the
\* close channel plays no part in it.
C4_OppositeStopsInOneRead ==
    \A d \in Directions :
        ~fwd[d].late_data =>
            /\ fwd[d].late <= 1
            /\ fwd[d].late = 1 => Stopped(d)

\* The client closed after its data: the client-to-upstream direction read
\* EOF and stopped, and the other direction, which had forwarded bytes and
\* had missed the close signal, stopped on its next read.
C4_Witness ==
    /\ Stopped("c2s") /\ fwd["c2s"].closed
    /\ Stopped("s2c") /\ ~fwd["s2c"].closed
    /\ fwd["s2c"].late = 1
    /\ ~fwd["s2c"].late_data
    /\ fwd["s2c"].read # <<>>
    /\ cli_out = fwd["s2c"].read

\* What C5 says of a state.
BothBeforeClosed ==
    /\ \A d \in Directions : fwd[d].signals <= 1 /\ (fwd[d].signals = 1 => Stopped(d))
    /\ (pc = "done" /\ outcome = "closed") => \A d \in Directions : Stopped(d)

\* What C5 says of a step: a direction that has stopped does nothing more.
StoppedForGood ==
    \A d \in Directions : Stopped(d) =>
        /\ fwd'[d] = fwd[d]
        /\ d = "c2s" => (wire' = wire /\ up_out' = up_out)
        /\ d = "s2c" => (up_wire' = up_wire /\ cli_out' = cli_out)

Written(d) ==
    IF d = "c2s"
    THEN SubSeq(up_out,
                Len(make_raw(0, handshake)) + (minecraft.free - minecraft.position) + 1,
                Len(up_out))
    ELSE cli_out

\* The bytes the source of direction d sends, from the first one d may read.
Outgoing(d) ==
    IF d = "c2s" THEN SubSeq(sent, Received + 1, Len(sent)) ELSE up_sent

\* C6: in each direction the bytes read are the source's bytes in order, and
\* the bytes written are the bytes read, in order, with none missing, added or
\* moved: all of them whenever the direction is about to read, all but the
\* chunk in hand while it writes, and a prefix short of at most the last chunk
\* once a write has failed.
C6_ForwardInOrder ==
    Forwarding =>
        \A d \in Directions :
            /\ fwd[d].read \o Source(d) = Outgoing(d)
            /\ IsPrefix(Written(d), fwd[d].read)
            /\ fwd[d].pc \in {"first", "read"} => Written(d) = fwd[d].read
            /\ fwd[d].pc = "write" => Written(d) \o fwd[d].buf = fwd[d].read
            /\ Len(fwd[d].read) - Len(Written(d)) <= ForwardBufferSize

\* Everything the upstream sent has reached the client, while the other
\* direction has written one chunk and holds the next one.
C6_Witness ==
    /\ pc = "forward"
    /\ fwd["s2c"].pc = "read"
    /\ Len(cli_out) >= 2
    /\ cli_out = up_sent
    /\ fwd["c2s"].pc = "write"
    /\ fwd["c2s"].buf # <<>>
    /\ Written("c2s") # <<>>

\* ---------------------------------------------------- the VarInt codec alone

\* All of the program's variables but the three of the pure-function checks.
progVars == <<config, resolved, wire, pc, outcome, error, minecraft, fill, signature,
              handshake, server_desc, upstream, contact, up_out, up_wire, cli_out,
              fwd, chan, sent, up_sent, last_read, tasks, listener, process>>

\* The variables of the one connection followed step by step.
handlerVars == <<wire, pc, outcome, error, minecraft, fill, signature, handshake,
                 server_desc, upstream, contact, up_out, up_wire, cli_out, fwd, chan,
                 sent, up_sent, last_read>>

\* No connection: none of the actions of handle_client is enabled.
NoHandler ==
    /\ wire = <<>>
    /\ sent = <<>>
    /\ up_sent = <<>>
    /\ last_read = "none"
    /\ pc = "off"
    /\ outcome = "running"
    /\ error = "none"
    /\ minecraft = MinecraftStream_new(0)
    /\ fill = [required |-> 0, ret |-> "none"]
    /\ signature = [length |-> 0, packet_id |-> 0]
    /\ handshake = NoPacket
    /\ server_desc = None
    /\ upstream = None
    /\ contact = <<>>
    /\ up_out = <<>>
    /\ up_wire = <<>>
    /\ cli_out = <<>>
    /\ fwd = [d \in Directions |-> Unspawned]
    /\ chan = [d \in Directions |-> "empty"]

NoConnection ==
    /\ config = Config1
    /\ resolved = [p \in ProxyPasses(Config1) |-> None]
    /\ NoHandler
    /\ NoServer

\* The 32-bit values encoded: the test vectors, the ends of the range and the
\* values on both sides of every 7-bit group boundary.
ProbeInts ==
    {0, 1, -1, 127, 128, 255, 300, 25565, -1599979007, -128, -129,
     2147483647, -2147483647 - 1}
    \union {Pow2(k) : k \in 0..30} \union {Pow2(k) - 1 : k \in 0..30}
    \union {-Pow2(k) : k \in 0..30}

\* The bytes that follow the VarInt in the stream.
TrailingBytes == {<<>>, <<0>>, <<255, 1>>}

InitCodec ==
    /\ NoConnection
    /\ fin \in [v : ProbeInts, sink : {DataBufferSize, VarIntBufferSize},
                lead : {<<>>, <<7>>}, rest : TrailingBytes]
    /\ fout = <<>>
    /\ fpc = "codec"

\* field.write(&mut Buffer::new(n)), then take().
CodecWrite ==
    /\ fpc = "codec"
    /\ LET sink == i32_write(fin.v, BufferNew(fin.sink))
       IN  fout' = [enc |-> take(sink), panic |-> sink.panic]
    /\ fpc' = "written"
    /\ UNCHANGED <<fin, progVars>>

\* The encoded bytes arrive in a MinecraftStream behind bytes already consumed.
CodecDeliver ==
    /\ fpc = "written"
    /\ ~fout.panic
    /\ fout' = [enc |-> fout.enc, panic |-> FALSE,
                stream |-> [recv(MinecraftStream_new(InitBufferSize),
                                 fin.lead \o fout.enc \o fin.rest)
                            EXCEPT !.position = Len(fin.lead)]]
    /\ fpc' = "delivered"
    /\ UNCHANGED <<fin, progVars>>

\* i32::read(&mut stream).
CodecRead ==
    /\ fpc = "delivered"
    /\ fout' = [enc |-> fout.enc, panic |-> FALSE, r |-> i32_read(fout.stream)]
    /\ fpc' = "read"
    /\ UNCHANGED <<fin, progVars>>

NextCodec ==
    \/ CodecWrite
    \/ CodecDeliver
    \/ CodecRead

SpecCodec == InitCodec /\ [][NextCodec]_vars

\* The i-th 7-bit group of the two's complement pattern of v, lowest first.
Group(v, i) ==
    LET low == IF v >= 0 THEN v ELSE (v + 2147483647) + 1   \* bits 0..30
        top == IF v >= 0 THEN 0 ELSE 8                      \* bit 31, within group 5
    IN  IF i = 5 THEN (low \div Pow2(28)) + top
        ELSE (low \div Pow2(7 * (i - 1))) % 128

\* The number of groups up to the highest one that is not zero, at least one.
GroupCount(v) ==
    IF \A i \in 1..5 : Group(v, i) = 0 THEN 1
    ELSE CHOOSE n \in 1..5 : Group(v, n) # 0 /\ \A i \in (n + 1)..5 : Group(v, i) = 0

\* C9: encoding any 32-bit signed integer as a VarInt gives 1 to 5 bytes, the
\* 7-bit groups of its unsigned pattern low group first, the high bit set on
\* every byte but the last, stopping at the highest group that is not zero;
\* decoding those bytes returns the integer and consumes exactly them; 300 is
\* [0xAC, 0x02], -1 is [0xFF, 0xFF, 0xFF, 0xFF, 0x0F] and 0 is [0x00].
C9_VarIntRoundTrip ==
    /\ fpc \in {"written", "delivered", "read"} =>
          /\ ~fout.panic
          /\ Len(fout.enc) = GroupCount(fin.v)
          /\ Len(fout.enc) \in 1..5
          /\ \A i \in 1..Len(fout.enc) :
                fout.enc[i] = Group(fin.v, i) + (IF i < Len(fout.enc) THEN 128 ELSE 0)
          /\ fin.v = 300 => fout.enc = <<172, 2>>
          /\ fin.v = -1 => fout.enc = <<255, 255, 255, 255, 15>>
          /\ fin.v = 0 => fout.enc = <<0>>
    /\ fpc = "read" =>
          /\ fout.r.res = "ok"
          /\ fout.r.val = fin.v
          /\ fout.r.s.position = Len(fin.lead) + Len(fout.enc)

\* A negative value is written on 5 bytes into a 4-byte sink and read back
\* from a stream that holds other bytes on both sides.
C9_Witness ==
    /\ fpc = "read"
    /\ fin.v = -1599979007
    /\ fin.sink = DataBufferSize
    /\ fin.lead # <<>> /\ fin.rest # <<>>
    /\ Len(fout.enc) = 5
    /\ fout.r.val = fin.v

\* ------------------------------------------------------------ the router alone

MaxDomainLen == 3
RouteAlphabet == {0, Dot, 65, 97, 98}

Str_Example_com_dot == <<69, 120, 97, 109, 112, 108, 101, 46, 99, 111, 109, 46>>
Str_example_com == <<101, 120, 97, 109, 112, 108, 101, 46, 99, 111, 109>>
Str_E_acute == <<195, 137>>
\* "hello\0world" and "sinya.ru\0\0\0\0" of the truncate_to_zero tests.
Str_hello_nul_world == <<104, 101, 108, 108, 111, 0, 119, 111, 114, 108, 100>>
Str_sinya_ru_nuls == <<115, 105, 110, 121, 97, 46, 114, 117, 0, 0, 0, 0>>

\* The domains a handshake may carry.
RouteDomains ==
    UNION {[1..n -> RouteAlphabet] : n \in 0..MaxDomainLen}
    \union {Str_Example_com_dot, Str_example_com, Str_e_acute, Str_E_acute,
            Str_hello_nul_world, Str_sinya_ru_nuls}

Config2 ==
    [handshake_timeout_ms |-> None,
     servers |-> << Server(ListenB, << <<97, 46, 98>> >>, ProxyB, None),
                    Server(ListenA, << <<66>>, <<65>> >>, ProxyA, None),
                    Server(ListenB, << >>, ProxyA, None),
                    Server(ListenA, << Str_a, Str_example_com >>, ProxyB, None),
                    Server(ListenB, << <<46>> >>, ProxyB, None) >>]

RouteConfigs == {Config1, Config2}

InitRoute ==
    /\ NoConnection
    /\ fin \in [domain : RouteDomains, config : RouteConfigs, listen : {ListenA, ListenB}]
    /\ fout = <<>>
    /\ fpc = "route"

\* handle_client, line 84: truncate_to_zero(&handshake.domain).
RouteTruncate ==
    /\ fpc = "route"
    /\ fout' = [domain |-> truncate_to_zero(fin.domain)]
    /\ fpc' = "truncated"
    /\ UNCHANGED <<fin, progVars>>

\* handle_client, line 85: find_upstream_config(&domain, config), on a
\* connection accepted at fin.listen.
RouteFind ==
    /\ fpc = "truncated"
    /\ fout' = [domain |-> fout.domain,
                found |-> find_upstream_config(fout.domain, fin.config)]
    /\ fpc' = "routed"
    /\ UNCHANGED <<fin, progVars>>

NextRoute ==
    \/ RouteTruncate
    \/ RouteFind

SpecRoute == InitRoute /\ [][NextRoute]_vars

\* C7: find_upstream_config matches the handshake domain, cut at its first NUL
\* and stripped of trailing dots, against each server name stripped of trailing
\* dots, ignoring the case of ASCII letters: the server returned has such a name,
\* None is returned exactly when no server has one, and "Example.com." is routed
\* to the server named "example.com".
C7_DomainMatching ==
    fpc = "routed" =>
        LET servers == fin.config.servers
        IN  /\ fout.found \in 0..Len(servers)
            /\ fout.found = 0 <=> MatchingServers(servers, fin.domain) = {}
            /\ fout.found # 0 => ServerMatches(servers[fout.found], fin.domain)
            /\ (fin.domain = Str_Example_com_dot /\ fin.config = Config2) => fout.found = 4

\* A domain with a trailing dot, an upper-case letter and bytes after a NUL is
\* routed to a server whose name has none of them.
C7_Witness ==
    /\ fpc = "routed"
    /\ fin.domain = <<65, 46, 0>>
    /\ fin.config = Config2
    /\ fout.domain = <<65, 46>>
    /\ fout.found = 2

\* C8: when several servers have a name that matches, the one chosen is the
\* first in configuration order, whatever the listen address the connection
\* was accepted at and whatever the listen addresses of the servers.
C8_FirstMatchWins ==
    (fpc = "routed" /\ MatchingServers(fin.config.servers, fin.domain) # {}) =>
        /\ fout.found \in MatchingServers(fin.config.servers, fin.domain)
        /\ \A i \in MatchingServers(fin.config.servers, fin.domain) : fout.found <= i

\* Two servers match, the first listens elsewhere than where the connection
\* was accepted, the second listens there: the first is chosen.
C8_Witness ==
    /\ fpc = "routed"
    /\ fout.found # 0
    /\ fin.config.servers[fout.found].listen # fin.listen
    /\ \E i \in MatchingServers(fin.config.servers, fin.domain) :
          /\ i > fout.found
          /\ fin.config.servers[i].listen = fin.listen

\* ------------------------------------------------------------ the frame alone

\* The packet ids a frame is made with.
PacketIds == {0, 1, 11, 127, 128, 300, -1, 2147483647}

InitFrame ==
    /\ NoConnection
    /\ fin \in [id : PacketIds, packet : Packets]
    /\ fout = <<>>
    /\ fpc = "frame"

\* MinecraftPacket::make_raw(id, &packet).
FrameMake ==
    /\ fpc = "frame"
    /\ fout' = [raw |-> make_raw(fin.id, fin.packet)]
    /\ fpc' = "made"
    /\ UNCHANGED <<fin, progVars>>

SpecFrame == InitFrame /\ [][FrameMake]_vars

\* The wire format, stated without the code: a VarInt, a string, a u16.
VarIntBytes(v) ==
    [i \in 1..GroupCount(v) |-> Group(v, i) + (IF i < GroupCount(v) THEN 128 ELSE 0)]

StringBytes(s) == VarIntBytes(Len(s)) \o s

U16Bytes(n) == <<n \div 256, n % 256>>

HandshakeBytes(p) ==
    VarIntBytes(p.protocol_version) \o StringBytes(p.domain)
        \o U16Bytes(p.server_port) \o VarIntBytes(p.next_state)

\* C11: make_raw(id, packet) is length || id || payload: the VarInt of the id,
\* the packet's fields encoded in their order, and before them the VarInt of
\* the number of id bytes plus the number of payload bytes.
C11_FrameLayout ==
    fpc = "made" =>
        LET id_bytes == VarIntBytes(fin.id)
            payload == HandshakeBytes(fin.packet)
        IN  fout.raw = VarIntBytes(Len(id_bytes) + Len(payload)) \o id_bytes \o payload

\* A frame with a 5-byte id and a payload longer than the sink it is written to.
C11_Witness ==
    /\ fpc = "made"
    /\ fin.id = -1
    /\ fin.packet.domain = Str_a_nul_b
    /\ Len(fout.raw) > DataBufferSize + VarIntBufferSize
    /\ fout.raw[1] = Len(fout.raw) - 1

\* C16: truncate_to_zero returns the part of its input before the first NUL,
\* and the whole input when there is none: "hello\0world" gives "hello",
\* "sinya.ru\0\0\0\0" gives "sinya.ru", "" gives ""; the result holds no NUL
\* and truncating it again changes nothing.
C16_TruncateToZero ==
    fpc \in {"truncated", "routed"} =>
        /\ fout.domain = CutAtNul(fin.domain)
        /\ \A k \in 1..Len(fout.domain) : fout.domain[k] # 0
        /\ (\A k \in 1..Len(fin.domain) : fin.domain[k] # 0) => fout.domain = fin.domain
        /\ truncate_to_zero(fout.domain) = fout.domain
        /\ fin.domain = Str_hello_nul_world => fout.domain = <<104, 101, 108, 108, 111>>
        /\ fin.domain = Str_sinya_ru_nuls => fout.domain = <<115, 105, 110, 121, 97, 46, 114, 117>>
        /\ fin.domain = <<>> => fout.domain = <<>>

\* An input with several NULs is cut at the first of them.
C16_Witness ==
    /\ fpc = "truncated"
    /\ fin.domain = Str_sinya_ru_nuls
    /\ Len(fout.domain) = 8

\* ------------------------------------------------- the field readers alone

MaxFieldBytes == 6

\* The bytes buffered at the cursor when a field is read: a byte without the
\* continuation bit and two with it, in every order.
FieldBytes == UNION {[1..n -> {2, 128, 255}] : n \in 0..MaxFieldBytes}

\* A field type, the bytes buffered for it, the bytes consumed before it and
\* the unused bytes of the array after them. A String is also read from a
\* length prefix of -1, a Uuid from runs around its 16 bytes.
FieldInputs ==
    [T : {"i32", "bool", "u16", "String"}, bytes : FieldBytes,
     lead : {<<>>, <<7>>}, slack : {0, 2}]
    \union [T : {"String"}, bytes : {<<255, 255, 255, 255, 15>>},
            lead : {<<>>, <<7>>}, slack : {0, 2}]
    \union [T : {"Uuid"}, bytes : {[i \in 1..n |-> 2] : n \in {0, 1, 15, 16, 17}},
            lead : {<<>>, <<7>>}, slack : {0, 2}]

InitField ==
    /\ NoConnection
    /\ fin \in FieldInputs
    /\ fout = <<>>
    /\ fpc = "field"

\* The bytes have arrived in a stream whose array has fin.slack unused bytes
\* after them, and the bytes before the cursor have been consumed.
FieldDeliver ==
    /\ fpc = "field"
    /\ LET size == Len(fin.lead) + Len(fin.bytes) + fin.slack
           filled == recv(MinecraftStream_new(size), fin.lead \o fin.bytes)
       IN  fout' = [stream |-> [filled EXCEPT !.position = Len(fin.lead)]]
    /\ fpc' = "delivered"
    /\ UNCHANGED <<fin, progVars>>

\* stream.read_field::<T>().
FieldRead ==
    /\ fpc = "delivered"
    /\ \E oc \in BOOLEAN :
          fout' = [stream |-> fout.stream, r |-> read_field(fin.T, fout.stream, oc)]
    /\ fpc' = "read"
    /\ UNCHANGED <<fin, progVars>>

SpecField == InitField /\ [][FieldDeliver \/ FieldRead]_vars

\* The bytes at the cursor that carry the continuation bit, counted from the
\* first up to the first that does not.
RECURSIVE ContinuationRun(_)
ContinuationRun(bytes) ==
    IF bytes = <<>> \/ Head(bytes) < 128 THEN 0
    ELSE 1 + ContinuationRun(Tail(bytes))

\* C18: the VarInt decoder returns Invalid exactly when the five bytes at the
\* cursor all carry the continuation bit; it returns Insufficient when fewer
\* than five bytes are buffered and all of them carry it; otherwise it returns
\* a value.
C18_VarIntErrors ==
    (fpc = "read" /\ fin.T = "i32") =>
        LET n == Len(fin.bytes)
            run == ContinuationRun(fin.bytes)
        IN  /\ fout.r.res = "Invalid" <=> (n >= 5 /\ run >= 5)
            /\ (n < 5 /\ run = n) => fout.r.res = "Insufficient"
            /\ ~(n >= 5 /\ run >= 5) /\ ~(n < 5 /\ run = n) => fout.r.res = "ok"

\* Six bytes are buffered and the first five carry the continuation bit: the
\* decoder reports Invalid and leaves the cursor where it was.
C18_Witness ==
    /\ fpc = "read"
    /\ fin.T = "i32"
    /\ Len(fin.bytes) = 6
    /\ ContinuationRun(fin.bytes) = 5
    /\ fout.r.res = "Invalid"
    /\ fout.r.s.position = Len(fin.lead)

\* C12: every primitive field reader (i32, bool, u16, String, Uuid) is
\* all-or-nothing: whenever read_field returns an error the cursor is where it
\* was before the call.
C12_AllOrNothing ==
    (fpc = "read" /\ fout.r.res \in {"Insufficient", "Invalid"}) =>
        fout.r.s.position = fout.stream.position

\* ------------------------------------------------ malformed handshakes

\* C13: read_signature returns Invalid whenever the frame length it decoded is
\* negative: it does not panic, it does not go on to read_data with the length
\* cast to usize, and when it returns, it returns Invalid.
C13_NegativeLengthInvalid ==
    signature.length < 0 =>
        /\ pc \in {"sig_id", "fill", "done"}
        /\ outcome # "panic"
        /\ (pc = "done" /\ outcome # "handshake_timeout") =>
              (outcome = "handshake_failed" /\ error = "Invalid")

\* ------------------------------------------------------- the signature

\* A VarInt read off the head of a byte sequence, from the wire format: its
\* size, and its value as a 32-bit two's complement number.
VarIntSize(bytes) == ContinuationRun(bytes) + 1

VarIntValue(bytes) ==
    LET n == VarIntSize(bytes)
        g(i) == IF i <= n THEN bytes[i] % 128 ELSE 0
        low28 == g(1) + g(2) * Pow2(7) + g(3) * Pow2(14) + g(4) * Pow2(21)
        low31 == low28 + (g(5) % 8) * Pow2(28)
    IN  IF (g(5) \div 8) % 2 = 1 THEN (low31 - 2147483647) - 1 ELSE low31

\* read_signature has returned Ok: read_data is about to run, or the packet
\* id check that follows it has failed.
SignatureRead == pc = "read_data" \/ (pc = "done" /\ error = "PacketId")

\* C17: after a successful read_signature, length and packet_id are the two
\* VarInts at the head of the stream ([0x80, 0x01, 0x0B] gives 128 and 11),
\* position has advanced by exactly their encoded size, and every buffered
\* byte after them is still unconsumed.
C17_SignatureEffect ==
    SignatureRead =>
        LET n1 == VarIntSize(sent)
            after == SubSeq(sent, n1 + 1, Len(sent))
            n2 == VarIntSize(after)
        IN  /\ signature.length = VarIntValue(sent)
            /\ signature.packet_id = VarIntValue(after)
            /\ minecraft.position = n1 + n2
            /\ minecraft.free = Len(sent) - Len(wire)
            /\ take_buffer(minecraft) = SubSeq(sent, n1 + n2 + 1, minecraft.free)
            /\ sent = <<128, 1, 11>> =>
                  (signature.length = 128 /\ signature.packet_id = 11)

\* A signature with a 2-byte packet id has been read and the packet data that
\* arrived with it is still in the buffer.
C17_Witness ==
    /\ pc = "read_data"
    /\ sent = <<8, 128, 0, 16, 1, 97, 99, 221, 2>>
    /\ minecraft.position = 3
    /\ take_buffer(minecraft) = <<16, 1, 97, 99, 221, 2>>

\* A handshake frame whose 2-byte domain, C3 61, is not UTF-8.
NonUtf8Handshake == <<7, 0, 16, 2, 195, 97, 99, 221, 2>>

\* C19: a handshake whose domain is not valid UTF-8 is malformed data: the
\* handler does not panic, string decoding gives an error, and the connection
\* is dropped without any upstream being contacted.
C19_NonUtf8Dropped ==
    sent = NonUtf8Handshake =>
        /\ outcome # "panic"
        /\ contact = <<>>
        /\ pc \in {"accepted", "sig_length", "sig_id", "read_data", "fill", "from_raw", "done"}

\* C20: in every state of a MinecraftStream, whatever was read from it and
\* whatever its peer sent, 0 <= position <= free <= capacity.
C20_CursorInvariant ==
    /\ 0 <= minecraft.position
    /\ minecraft.position <= minecraft.free
    /\ minecraft.free <= Len(minecraft.buffer)

\* -------------------------------------------- the server: many connections
\* handle_address and the handle_client tasks it spawns, each task followed
\* from one await that touches shared state to the next; the handshake, whose
\* bytes the one-connection specification follows, is one step here.

MaxConns == 2
MaxAcceptErrors == 1

Conns == 1..MaxConns

\* The domains the handshakes carry: routed to the first server of Config1
\* (backend ProxyA), to the second (backend ProxyB), routed nowhere.
TaskDomains == {Str_A_dot, Str_b, Str_c}

\* A connection no accept() has returned yet.
NoTask ==
    [pc |-> "idle", outcome |-> "running", server_desc |-> None, upstream |-> None,
     resolves |-> 0, guard |-> "none", ticket |-> 0, replayed |-> FALSE,
     forwarding |-> FALSE]

InitServer ==
    /\ config = Config1
    /\ resolved = [p \in ProxyPasses(config) |-> None]
    /\ NoHandler
    /\ fin = <<>>
    /\ fout = <<>>
    /\ fpc = "off"
    /\ tasks = [c \in Conns |-> NoTask]
    /\ listener = [pc |-> "startup", last |-> "none", errors |-> 0, server |-> 1,
                   attempts |-> [p \in ProxyPasses(config) |-> 0]]
    /\ process = "running"

\* main(): one iteration of the startup pass, then the listeners are spawned.
\* `attempts` counts the calls of try_resolve per proxy_pass.
main_resolve ==
    /\ process = "running"
    /\ listener.pc = "startup"
    /\ IF listener.server > Len(config.servers)
       THEN /\ listener' = [listener EXCEPT !.pc = "accept"]
            /\ UNCHANGED resolved
       ELSE LET server == config.servers[listener.server]
                cached == resolved[server.proxy_pass] # None
            IN  \E ok \in (IF cached THEN {FALSE} ELSE BOOLEAN) :
                   /\ resolved' = startup_step(server, ok, resolved)
                   /\ listener' = [listener EXCEPT
                          !.server = @ + 1,
                          !.attempts[server.proxy_pass] = IF cached THEN @ ELSE @ + 1]
    /\ UNCHANGED <<process, config, tasks, handlerVars, fin, fout, fpc>>

\* handle_client of connection c returns.
TaskReturn(c, why, replayed) ==
    tasks' = [tasks EXCEPT ![c].pc = "done", ![c].outcome = why, ![c].replayed = replayed]

\* tokio::spawn, were a panic in a task to take the process down.
spawned_task_panics_abort(proc) == "crashed"

\* tokio::spawn: a panic in the spawned future unwinds that task alone; the
\* JoinHandle that would report it is dropped.
spawned_task_panics(proc) == proc

\* handle_address, were it to await handle_client in the loop instead of
\* spawning it.
handle_address_inline ==
    /\ process = "running"
    /\ listener.pc = "accept"
    /\ \/ \E c \in Conns :
             /\ tasks[c].pc = "idle"
             /\ \A d \in Conns : d < c => tasks[d].pc # "idle"
             /\ tasks' = [tasks EXCEPT ![c].pc = "accepted"]
             /\ listener' = [listener EXCEPT !.last = "spawned", !.pc = "handle_client"]
       \/ /\ listener.errors < MaxAcceptErrors
          /\ listener' = [listener EXCEPT !.last = "error", !.errors = @ + 1]
          /\ UNCHANGED tasks
    /\ UNCHANGED <<process, config, resolved, handlerVars, fin, fout, fpc>>

\* handle_address: one turn of the loop. accept() returns a connection, which
\* is handed to a spawned handle_client, or an error, which is logged. The
\* loop's history is kept as the kind of its last turn and the count of errors.
handle_address ==
    /\ process = "running"
    /\ listener.pc = "accept"
    /\ \/ \E c \in Conns :
             /\ tasks[c].pc = "idle"
             /\ \A d \in Conns : d < c => tasks[d].pc # "idle"
             /\ tasks' = [tasks EXCEPT ![c].pc = "accepted"]
             /\ listener' = [listener EXCEPT !.last = "spawned"]
       \/ /\ listener.errors < MaxAcceptErrors
          /\ listener' = [listener EXCEPT !.last = "error", !.errors = @ + 1]
          /\ UNCHANGED tasks
    /\ UNCHANGED <<process, config, resolved, handlerVars, fin, fout, fpc>>

\* handle_client, lines 57-91: set_nodelay, the handshake under its timeout,
\* the route. Nothing here reads or writes state shared with other tasks.
TaskHandshake(c) ==
    /\ process = "running"
    /\ tasks[c].pc = "accepted"
    /\ \/ /\ \E why \in {"nodelay_failed", "handshake_failed", "handshake_timeout"} :
                TaskReturn(c, why, FALSE)
          /\ UNCHANGED process
       \/ /\ TaskReturn(c, "panic", FALSE)
          /\ process' = spawned_task_panics(process)
       \/ /\ \E domain \in TaskDomains :
                LET found == find_upstream_config(truncate_to_zero(domain), config)
                IN  IF found = 0
                    THEN TaskReturn(c, "no_upstream", FALSE)
                    ELSE tasks' = [tasks EXCEPT ![c].pc = "lookup",
                                                ![c].server_desc = Some(config.servers[found])]
          /\ UNCHANGED process
    /\ UNCHANGED <<listener, config, resolved, handlerVars, fin, fout, fpc>>

\* The RwLock around the cache. A task's `guard` is "held" while it owns a
\* read guard (in the lookup) or the write guard (in the insert), and "wait"
\* while its read() or write() is pending; the lock serves its waiters in the
\* order of their calls, which `ticket` records.
Holding == {c \in Conns : tasks[c].guard = "held"}
Waiting == {c \in Conns : tasks[c].guard = "wait"}
Writing == {c \in Holding : tasks[c].pc # "lookup"}

\* Task c calls read() (write = FALSE) or write() on the lock, or is polled
\* again while it waits: it gets the guard when no guard that excludes its own
\* is held and no earlier call is waiting, and waits otherwise.
acquire(c, write) ==
    LET free == IF write THEN Holding = {} ELSE Writing = {}
        first == \A d \in Waiting : tasks[c].ticket <= tasks[d].ticket
        last == IF Waiting = {} THEN 0
                ELSE CHOOSE t \in {tasks[d].ticket : d \in Waiting} :
                        \A d \in Waiting : tasks[d].ticket <= t
    IN  IF tasks[c].guard = "none"
        THEN IF free /\ Waiting = {}
             THEN tasks' = [tasks EXCEPT ![c].guard = "held"]
             ELSE tasks' = [tasks EXCEPT ![c].guard = "wait", ![c].ticket = last + 1]
        ELSE /\ tasks[c].guard = "wait"
             /\ free
             /\ first
             /\ tasks' = [tasks EXCEPT ![c].guard = "held", ![c].ticket = 0]

\* handle_client, were the read guard to live on through the match on the
\* entry it read.
TaskLookupKeepsGuard(c) ==
    /\ process = "running"
    /\ tasks[c].pc = "lookup"
    /\ IF tasks[c].guard # "held"
       THEN acquire(c, FALSE)
       ELSE LET hit == resolved[tasks[c].server_desc[1].proxy_pass]
            IN  tasks' = [tasks EXCEPT ![c].upstream = hit,
                                       ![c].pc = IF hit # None THEN "connect" ELSE "resolve"]
    /\ UNCHANGED <<listener, process, config, resolved, handlerVars, fin, fout, fpc>>

\* handle_client, lines 95-98: the read lock taken, the cache read, the guard
\* dropped at the end of the block.
TaskLookup(c) ==
    /\ process = "running"
    /\ tasks[c].pc = "lookup"
    /\ IF tasks[c].guard # "held"
       THEN acquire(c, FALSE)
       ELSE LET hit == resolved[tasks[c].server_desc[1].proxy_pass]
            IN  tasks' = [tasks EXCEPT ![c].upstream = hit,
                                       ![c].guard = "none",
                                       ![c].pc = IF hit # None THEN "connect" ELSE "resolve"]
    /\ UNCHANGED <<listener, process, config, resolved, handlerVars, fin, fout, fpc>>

\* handle_client, were a resolution that failed to leave a placeholder in the cache.
TaskResolveCachesFailure(c) ==
    /\ process = "running"
    /\ tasks[c].pc = "resolve"
    /\ LET server == tasks[c].server_desc[1]
           entry(addr) == Some([proxy_pass |-> server.proxy_pass, addr |-> addr,
                                buffer_size |-> server.buffer_size])
       IN  \/ /\ tasks' = [tasks EXCEPT ![c].pc = "insert", ![c].resolves = @ + 1,
                                        ![c].upstream = entry(AddrOf(server.proxy_pass))]
              /\ UNCHANGED resolved
           \/ /\ tasks' = [tasks EXCEPT ![c].pc = "done", ![c].outcome = "resolve_failed",
                                        ![c].resolves = @ + 1]
              /\ resolved' = [resolved EXCEPT ![server.proxy_pass] = entry(<<"addr", "unresolved">>)]
    /\ UNCHANGED <<listener, process, config, handlerVars, fin, fout, fpc>>

\* handle_client, lines 103-110 and 115-118: try_resolve on a cache miss; the
\* task counts its calls of try_resolve.
TaskResolve(c) ==
    /\ process = "running"
    /\ tasks[c].pc = "resolve"
    /\ LET server == tasks[c].server_desc[1]
       IN  \/ tasks' = [tasks EXCEPT ![c].pc = "insert",
                                     ![c].resolves = @ + 1,
                                     ![c].upstream = Some([proxy_pass |-> server.proxy_pass,
                                                           addr |-> AddrOf(server.proxy_pass),
                                                           buffer_size |-> server.buffer_size])]
           \/ tasks' = [tasks EXCEPT ![c].pc = "done", ![c].outcome = "resolve_failed",
                                     ![c].resolves = @ + 1]
    /\ UNCHANGED <<listener, process, config, resolved, handlerVars, fin, fout, fpc>>

\* handle_client, were the write guard to live on after the insert.
TaskInsertKeepsGuard(c) ==
    /\ process = "running"
    /\ tasks[c].pc = "insert"
    /\ IF tasks[c].guard # "held"
       THEN acquire(c, TRUE) /\ UNCHANGED resolved
       ELSE /\ resolved' = [resolved EXCEPT
                                ![tasks[c].server_desc[1].proxy_pass] = tasks[c].upstream]
            /\ tasks' = [tasks EXCEPT ![c].pc = "connect"]
    /\ UNCHANGED <<listener, process, config, handlerVars, fin, fout, fpc>>

\* handle_client, lines 111-113: the write lock taken, the entry inserted, the
\* guard dropped at the end of the match arm.
TaskInsert(c) ==
    /\ process = "running"
    /\ tasks[c].pc = "insert"
    /\ IF tasks[c].guard # "held"
       THEN acquire(c, TRUE) /\ UNCHANGED resolved
       ELSE /\ resolved' = [resolved EXCEPT
                                ![tasks[c].server_desc[1].proxy_pass] = tasks[c].upstream]
            /\ tasks' = [tasks EXCEPT ![c].pc = "connect", ![c].guard = "none"]
    /\ UNCHANGED <<listener, process, config, handlerVars, fin, fout, fpc>>

\* handle_client, were a failed dial to evict the cached address.
TaskConnectEvicts(c) ==
    /\ process = "running"
    /\ tasks[c].pc = "connect"
    /\ \/ /\ TaskReturn(c, "connect_failed", FALSE)
          /\ resolved' = [resolved EXCEPT ![tasks[c].server_desc[1].proxy_pass] = None]
       \/ /\ TaskReturn(c, "upstream_nodelay_failed", FALSE)
          /\ UNCHANGED resolved
       \/ /\ tasks' = [tasks EXCEPT ![c].pc = "replay"]
          /\ UNCHANGED resolved
    /\ UNCHANGED <<listener, process, config, handlerVars, fin, fout, fpc>>

\* handle_client, lines 126-136: the dial, then set_nodelay.
TaskConnect(c) ==
    /\ process = "running"
    /\ tasks[c].pc = "connect"
    /\ \/ TaskReturn(c, "connect_failed", FALSE)
       \/ TaskReturn(c, "upstream_nodelay_failed", FALSE)
       \/ tasks' = [tasks EXCEPT ![c].pc = "replay"]
    /\ UNCHANGED <<listener, process, config, resolved, handlerVars, fin, fout, fpc>>

\* handle_client, lines 137-151: the handshake replayed, the unread buffer
\* flushed. A write_all that fails may have written some of its bytes.
TaskReplay(c) ==
    /\ process = "running"
    /\ tasks[c].pc = "replay"
    /\ \/ /\ \E some \in BOOLEAN : TaskReturn(c, "replay_failed", some)
          /\ UNCHANGED process
       \/ /\ TaskReturn(c, "flush_failed", TRUE)
          /\ UNCHANGED process
       \/ /\ TaskReturn(c, "flush_panic", TRUE)
          /\ process' = spawned_task_panics(process)
       \/ /\ tasks' = [tasks EXCEPT ![c].pc = "forward", ![c].replayed = TRUE,
                                    ![c].forwarding = TRUE]
          /\ UNCHANGED process
    /\ UNCHANGED <<listener, config, resolved, handlerVars, fin, fout, fpc>>

\* handle_client, lines 153-166: both directions have ended.
TaskForward(c) ==
    /\ process = "running"
    /\ tasks[c].pc = "forward"
    /\ TaskReturn(c, "closed", TRUE)
    /\ UNCHANGED <<listener, process, config, resolved, handlerVars, fin, fout, fpc>>

NextServer ==
    \/ main_resolve
    \/ handle_address
    \/ \E c \in Conns :
          \/ TaskHandshake(c)
          \/ TaskLookup(c)
          \/ TaskResolve(c)
          \/ TaskInsert(c)
          \/ TaskConnect(c)
          \/ TaskReplay(c)
          \/ TaskForward(c)

SpecServer == InitServer /\ [][NextServer]_vars

\* The ways a handle_client task ends other than by forwarding to the end.
Failures ==
    {"nodelay_failed", "handshake_failed", "handshake_timeout", "panic", "no_upstream",
     "resolve_failed", "connect_failed", "upstream_nodelay_failed", "replay_failed",
     "flush_failed", "flush_panic"}

\* Connection c fails in this step.
Fails(c) == tasks[c].outcome = "running" /\ tasks'[c].outcome \in Failures

\* This step leaves every connection but c, and the accept loop, as they were.
OthersUntouched(c) ==
    /\ \A d \in Conns \ {c} : tasks'[d] = tasks[d]
    /\ listener' = listener
    /\ process' = process

\* accept() returns an error in this step.
AcceptFails ==
    /\ listener'.errors = listener.errors + 1
    /\ listener'.last = "error"

\* C14: no failure of one connection (a decode error, a timeout, a resolution
\* or dial failure, an I/O error, a panic on oversized or malformed input)
\* takes the process down or changes another connection or the accept loop;
\* an accept() that fails is logged and the loop accepts again.
C14_FailureIsolation ==
    /\ [](process = "running")
    /\ [][\A c \in Conns : Fails(c) => (OthersUntouched(c) /\ resolved' = resolved)]_vars
    /\ [][AcceptFails => (tasks' = tasks /\ listener'.pc = "accept")]_vars
    /\ []((listener.pc = "accept" /\ \E c \in Conns : tasks[c].pc = "idle")
             => ENABLED handle_address)

\* One connection has panicked in its handshake; an accept() has failed, a
\* connection was accepted after that and the second connection is forwarding.
C14_Witness ==
    /\ listener.errors = 1
    /\ listener.last = "spawned"
    /\ tasks[1].outcome = "panic"
    /\ tasks[2].pc = "forward"
    /\ tasks[2].forwarding
    /\ process = "running"

\* C15: when resolving the matched backend fails, or dialing the resolved
\* address fails, the connection ends there: handle_client returns, nothing
\* has been replayed to an upstream, no forwarding has started, the cache is
\* as it was, and the other connections and the accept loop are untouched.
C15_ResolveDialFailureLocal ==
    /\ [](\A c \in Conns :
            tasks[c].outcome \in {"resolve_failed", "connect_failed"} =>
                (tasks[c].pc = "done" /\ ~tasks[c].replayed /\ ~tasks[c].forwarding))
    /\ [][\A c \in Conns :
            (Fails(c) /\ tasks'[c].outcome \in {"resolve_failed", "connect_failed"}) =>
                (resolved' = resolved /\ OthersUntouched(c))]_vars

\* A dial fails on an address the cache holds while another connection, on the
\* same cached address, is forwarding: the entry stays.
C15_Witness ==
    /\ tasks[1].outcome = "connect_failed"
    /\ tasks[1].upstream # None
    /\ resolved[tasks[1].upstream[1].proxy_pass] = tasks[1].upstream
    /\ tasks[2].pc = "forward"
    /\ tasks[2].upstream = tasks[1].upstream

\* ------------------------------------------------ the field readers, short

\* The field at the cursor needs more bytes than are buffered: none for a
\* bool, fewer than 2 for a u16, fewer than 16 for a Uuid, and for a String a
\* length prefix that decodes and declares more bytes than follow it.
FieldShort ==
    LET n == Len(fin.bytes)
        prefix == ContinuationRun(fin.bytes) + 1
    IN  CASE fin.T = "bool" -> n < 1
          [] fin.T = "u16" -> n < 2
          [] fin.T = "Uuid" -> n < 16
          [] fin.T = "String" ->
                /\ prefix <= n
                /\ prefix <= 5
                /\ (VarIntValue(fin.bytes) < 0 \/ VarIntValue(fin.bytes) > n - prefix)
          [] OTHER -> FALSE

\* C21: a field reader returns Insufficient whenever fewer bytes are buffered
\* and unconsumed than the field needs, and no reader returns a value built
\* from bytes of the array at or beyond free.
C21_InsufficientWhenShort ==
    fpc = "read" =>
        /\ FieldShort => fout.r.res = "Insufficient"
        /\ fout.r.res = "ok" => fout.r.s.position <= fout.r.s.free

\* ------------------------------------------------------------ refilling

\* C22: read_data runs the packet's decoder only once signature.length bytes
\* are buffered and unconsumed, refilling from the network when they are not.
C22_DecodeAfterWholeFrame ==
    pc = "from_raw" => minecraft.free - minecraft.position >= signature.length

\* C23: fill_buffer_from_source fails only when the peer has closed the
\* connection (a read of zero bytes from the network) or the transport has
\* returned an error: never while the peer is still supplying bytes.
C23_FillFailsOnlyOnClose ==
    (pc = "done" /\ outcome = "handshake_failed" /\ error = "Closed") =>
        last_read \in {"eof", "err"}

\* ------------------------------------------------ a reader with a small array
\* read_packet::<HandshakeC2SPacket>() on MinecraftStream::new(client, n) for
\* a small n: the steps are those of the connection, up to the decoded packet.

SmallBufferSize == 2

\* What the peer sends: every sequence of up to four bytes, one byte without
\* the continuation bit, one that is a length or an id, one with the bit.
ReaderStreams == UNION {[1..n -> {0, 1, 128}] : n \in 0..4}

InitReader ==
    /\ config = Config1
    /\ resolved = [p \in ProxyPasses(Config1) |-> None]
    /\ wire \in ReaderStreams
    /\ sent = wire
    /\ up_sent = <<>>
    /\ last_read = "none"
    /\ fin = <<>>
    /\ fout = <<>>
    /\ fpc = "off"
    /\ NoServer
    /\ pc = "sig_length"
    /\ outcome = "running"
    /\ error = "none"
    /\ minecraft \in {MinecraftStream_new(n) : n \in 1..SmallBufferSize}
    /\ fill = [required |-> 0, ret |-> "none"]
    /\ signature = [length |-> 0, packet_id |-> 0]
    /\ handshake = NoPacket
    /\ server_desc = None
    /\ upstream = None
    /\ contact = <<>>
    /\ up_out = <<>>
    /\ up_wire = <<>>
    /\ cli_out = <<>>
    /\ fwd = [d \in Directions |-> Unspawned]
    /\ chan = [d \in Directions |-> "none"]

SpecReader ==
    InitReader /\ [][ReadSignatureLength \/ ReadSignatureId \/ ReadData
                      \/ FillRead \/ HandshakeTimeout \/ FromRaw]_vars

\* A refill starts in this step with no room left behind free.
RefillStartsFull ==
    /\ pc \in {"sig_length", "sig_id", "read_data"}
    /\ minecraft.free >= Len(minecraft.buffer)
    /\ (pc' = "fill" \/ (pc' = "done" /\ outcome' = "panic"))

\* C24: when a refill starts with free = capacity, the bytes from position to
\* free are first moved, unchanged and in order, to the head of the array
\* (position becomes 0, free their count), and when position is 0 already the
\* array grows and keeps them: either way the read that follows has room and
\* no buffered byte is lost.
C24_RefillMakesRoom ==
    [][RefillStartsFull =>
          /\ outcome' # "panic"
          /\ take_buffer(minecraft') = take_buffer(minecraft)
          /\ minecraft'.free < Len(minecraft'.buffer)
          /\ minecraft.position # 0 =>
                (minecraft'.position = 0
                 /\ minecraft'.free = minecraft.free - minecraft.position)
          /\ minecraft.position = 0 => Len(minecraft'.buffer) > Len(minecraft.buffer)]_vars

\* ---------------------------------------------------- read_signature, errors

\* read_signature is at one of its two read_field::<i32>() calls.
InSignature == pc \in {"sig_length", "sig_id"}

\* The bytes buffered at the cursor all carry the continuation bit: five of
\* them make a malformed VarInt, fewer one that is not yet whole.
Unfinished == ContinuationRun(take_buffer(minecraft)) = Len(take_buffer(minecraft))
MalformedVarInt == ContinuationRun(take_buffer(minecraft)) >= 5

\* A refill asked for by read_signature ends in this step.
SignatureRefillEnds ==
    pc = "fill" /\ fill.ret \in {"sig_length", "sig_id"} /\ pc' # "fill"

\* C25: read_signature returns Invalid at once, with no further network read,
\* when either of its two VarInts is malformed; when one is not yet whole it
\* refills and decodes the same field again; it returns Closed when the peer
\* closes or the transport fails during such a refill.
C25_SignatureErrors ==
    /\ [][(InSignature /\ MalformedVarInt) =>
             (pc' = "done" /\ outcome' = "handshake_failed" /\ error' = "Invalid"
              /\ wire' = wire /\ minecraft' = minecraft /\ last_read' = last_read)]_vars
    /\ [][(InSignature /\ ~MalformedVarInt /\ Unfinished) =>
             (pc' = "fill" /\ fill'.ret = pc /\ wire' = wire
              /\ take_buffer(minecraft') = take_buffer(minecraft))]_vars
    /\ [][SignatureRefillEnds =>
             \/ /\ pc' = fill.ret
                /\ last_read' = "data"
                /\ Len(take_buffer(minecraft')) > Len(take_buffer(minecraft))
                /\ minecraft'.position = minecraft.position
             \/ /\ pc' = "done"
                /\ outcome' = "handshake_failed" /\ error' = "Closed"
                /\ last_read' \in {"eof", "err"}
             \/ pc' = "done" /\ outcome' = "handshake_timeout"]_vars
    /\ [][(pc = "fill" /\ fill.ret \in {"sig_length", "sig_id"}
           /\ last_read' # last_read /\ last_read' \in {"eof", "err"}) =>
             (pc' = "done" /\ error' = "Closed")]_vars

\* The packet id needs a sixth byte: Invalid is returned while that byte and
\* the one after it are still unread on the connection.
C25_Witness ==
    /\ sent = <<1, 128, 128, 128, 128, 128, 0>>
    /\ pc = "done"
    /\ error = "Invalid"
    /\ signature.length = 1
    /\ wire = <<0>>

\* ------------------------------------------------------------- the cache

Backends == ProxyPasses(Config1)

\* The backend connection c was routed to.
BackendOf(c) == tasks[c].server_desc[1].proxy_pass

\* C26: the cache gains an entry for a backend only through a resolution of
\* that backend that succeeded after a cache miss (or at startup); a
\* resolution that fails writes nothing; nothing removes an entry or changes
\* the entry of another backend.
C26_CacheWrites ==
    /\ [](\A p \in Backends :
            resolved[p] # None =>
                (resolved[p][1].proxy_pass = p /\ resolved[p][1].addr = AddrOf(p)))
    /\ [][\A p \in Backends :
            resolved'[p] # resolved[p] =>
                /\ \A q \in Backends \ {p} : resolved'[q] = resolved[q]
                /\ \/ \E c \in Conns :
                         /\ tasks[c].pc = "insert"
                         /\ tasks'[c].pc = "connect"
                         /\ BackendOf(c) = p
                         /\ tasks[c].resolves = 1
                         /\ resolved'[p] = tasks[c].upstream
                   \/ /\ listener.pc = "startup"
                      /\ listener.server <= Len(config.servers)
                      /\ config.servers[listener.server].proxy_pass = p
                      /\ resolved[p] = None
                      /\ listener'.attempts[p] = listener.attempts[p] + 1]_vars
    /\ [][\A c \in Conns :
            (tasks[c].pc # "resolve" /\ tasks'[c].pc = "resolve") =>
                (tasks[c].pc = "lookup" /\ resolved[BackendOf(c)] = None)]_vars
    /\ [][\A c \in Conns :
            (tasks[c].pc # "insert" /\ tasks'[c].pc = "insert") =>
                (tasks[c].pc = "resolve" /\ tasks'[c].upstream # None)]_vars
    /\ [][\A c \in Conns :
            (Fails(c) /\ tasks'[c].outcome = "resolve_failed") => resolved' = resolved]_vars
    /\ [][\A p \in Backends : resolved[p] # None => resolved'[p] # None]_vars

\* One connection's resolution has failed and its backend has no entry; the
\* other resolved its own backend after a miss and the entry is in the cache.
C26_Witness ==
    /\ tasks[1].outcome = "resolve_failed"
    /\ resolved[BackendOf(1)] = None
    /\ tasks[2].pc = "connect"
    /\ tasks[2].resolves = 1
    /\ BackendOf(2) # BackendOf(1)
    /\ resolved[BackendOf(2)] = tasks[2].upstream


\* C27: the startup pass calls try_resolve at most once for each distinct
\* proxy_pass; and a connection whose lookup finds an entry for its backend
\* goes on to dial the address of that entry without calling try_resolve.
C27_ResolveOnce ==
    /\ [](\A p \in Backends : listener.attempts[p] <= 1)
    /\ [][\A c \in Conns :
            (tasks[c].pc = "lookup" /\ tasks'[c].pc # "lookup"
                /\ resolved[BackendOf(c)] # None) =>
                /\ tasks'[c].pc = "connect"
                /\ tasks'[c].upstream = resolved[BackendOf(c)]
                /\ tasks'[c].resolves = 0]_vars
    /\ [](\A c \in Conns :
            (tasks[c].upstream # None /\ tasks[c].resolves = 0) =>
                tasks[c].upstream[1].addr = AddrOf(BackendOf(c)))


\* ------------------------------------------------ the cache, concurrent misses

\* Task c has resolved its backend itself and has written the cache.
Wrote(c) ==
    /\ tasks[c].resolves = 1
    /\ tasks[c].upstream # None
    /\ tasks[c].pc \in {"connect", "replay", "forward", "done"}

\* Some task at the lock can take its step: a holder drops its guard, or a
\* waiter is given the guard.
LockMoves ==
    \E d \in Holding \cup Waiting : ENABLED TaskLookup(d) \/ ENABLED TaskInsert(d)

\* C28: connections that miss the cache for the same backend each resolve it
\* and write the cache; the cache holds one entry for that backend, under its
\* key, which is the entry of one of the writers; a connection whose
\* resolution succeeded goes on to dial with the entry it built; and whenever
\* a task waits for the cache lock, some task at the lock can move.
C28_ConcurrentMisses ==
    /\ [](\A c \in Conns : Wrote(c) =>
            /\ resolved[BackendOf(c)] # None
            /\ resolved[BackendOf(c)][1].proxy_pass = BackendOf(c)
            /\ resolved[BackendOf(c)][1].addr = tasks[c].upstream[1].addr
            /\ \/ resolved[BackendOf(c)] = tasks[c].upstream
               \/ \E d \in Conns \ {c} :
                     Wrote(d) /\ BackendOf(d) = BackendOf(c)
                        /\ resolved[BackendOf(c)] = tasks[d].upstream)
    /\ [][\A c \in Conns : tasks[c].pc = "insert" =>
            /\ tasks'[c].pc \in {"insert", "connect"}
            /\ tasks'[c].upstream = tasks[c].upstream
            /\ tasks'[c].outcome = "running"]_vars
    /\ [](\A c \in Conns : tasks[c].pc = "insert" => ENABLED TaskInsert(c) \/ LockMoves)
    /\ [](Waiting # {} => LockMoves)
    /\ [](\A c \in Holding : ENABLED TaskLookup(c) \/ ENABLED TaskInsert(c))
    /\ [](Cardinality(Writing) <= 1 /\ (Writing # {} => Cardinality(Holding) = 1))

\* Both connections missed the cache for one backend, both resolved it, both
\* wrote, the second after the first, and both are past the dial.
C28_Witness ==
    /\ Wrote(1) /\ tasks[1].pc = "forward"
    /\ Wrote(2) /\ tasks[2].pc = "forward"
    /\ BackendOf(1) = BackendOf(2)
    /\ resolved[BackendOf(1)] = tasks[2].upstream


\* ------------------------------------------------ the accept loop

\* The phases of handle_client that wait on the network or on the resolver.
StallPhases == {"accepted", "resolve", "connect", "replay", "forward"}

\* Some step of handle_client of connection c.
TaskStep(c) ==
    \/ TaskHandshake(c)
    \/ TaskLookup(c)
    \/ TaskResolve(c)
    \/ TaskInsert(c)
    \/ TaskConnect(c)
    \/ TaskReplay(c)
    \/ TaskForward(c)

\* C29: the accept loop hands each accepted connection to a task of its own
\* and is accepting again in the same step, before any phase of that
\* connection has run; whatever phases the connections are in, the loop can
\* accept while a connection is left to accept, and every connection that has
\* not ended can take its next step or, at the cache lock, waits only for a
\* task that can move; a task in a phase that can stall holds no guard of the
\* lock and is not in its queue; a step of one connection changes no other.
C29_AcceptNeverWaits ==
    /\ [][\A c \in Conns : (tasks[c].pc = "idle" /\ tasks'[c].pc # "idle") =>
            /\ tasks'[c] = [tasks[c] EXCEPT !.pc = "accepted"]
            /\ listener.pc = "accept"
            /\ listener'.pc = "accept"
            /\ \A d \in Conns \ {c} : tasks'[d] = tasks[d]
            /\ resolved' = resolved]_vars
    /\ []((listener.pc # "startup" /\ \E c \in Conns : tasks[c].pc = "idle")
            => ENABLED handle_address)
    /\ [](\A c \in Conns : tasks[c].pc \notin {"idle", "done"} =>
            ENABLED TaskStep(c) \/ (tasks[c].guard = "wait" /\ LockMoves))
    /\ [](\A c \in Conns : tasks[c].pc \in StallPhases \cup {"idle", "done"} =>
            tasks[c].guard = "none")
    /\ [][\A c \in Conns : (tasks[c].pc # "idle" /\ tasks'[c] # tasks[c]) =>
            /\ listener' = listener
            /\ \A d \in Conns \ {c} : tasks'[d] = tasks[d]]_vars

\* The first connection is still in its handshake; the connection accepted
\* after it has been routed, resolved, dialed and is forwarding.
C29_Witness ==
    /\ tasks[1].pc = "accepted"
    /\ tasks[2].pc = "forward"
    /\ tasks[2].resolves = 1
    /\ listener.pc = "accept"


\* ------------------------------------------------ Byte Sink harness

\* The initial capacities, the bytes written and the writes between resets.
MaxSinkSize == 2
MaxSinkWrites == 4
SinkBytes == {0, 1, 255}

\* Buffer::new(init_size); `written` is the bytes passed to write_byte since
\* the last reset.
InitSink ==
    /\ NoConnection
    /\ fin \in 0..MaxSinkSize
    /\ fout = [buffer |-> BufferNew(fin), written |-> <<>>]
    /\ fpc = "sink"

\* buffer.write_byte(value).
SinkWrite ==
    /\ fpc = "sink"
    /\ ~fout.buffer.panic
    /\ Len(fout.written) < MaxSinkWrites
    /\ \E value \in SinkBytes :
          fout' = [buffer |-> write_byte(fout.buffer, value),
                   written |-> Append(fout.written, value)]
    /\ UNCHANGED <<fin, fpc, progVars>>

\* buffer.reset().
SinkReset ==
    /\ fpc = "sink"
    /\ ~fout.buffer.panic
    /\ fout' = [buffer |-> reset(fout.buffer), written |-> <<>>]
    /\ UNCHANGED <<fin, fpc, progVars>>

SpecSink == InitSink /\ [][SinkWrite \/ SinkReset]_vars

\* C30: for a Buffer created with any initial capacity, after any writes and
\* resets the cursor is at most the array length, no write_byte has failed,
\* and take() is the bytes written since the last reset, in order.
C30_SinkInvariant ==
    fpc = "sink" =>
        /\ fout.buffer.position <= Len(fout.buffer.array)
        /\ ~fout.buffer.panic
        /\ take(fout.buffer) = fout.written


\* ------------------------------------------------ the upstream transcript

\* The bytes the proxy has taken from the client, as the client sent them.
TakenFromClient == SubSeq(sent, 1, Len(sent) - Len(wire))

\* C31: for a client whose first frame is a canonical handshake, whatever the
\* split of its bytes into reads, the bytes written to the upstream (the frame
\* replayed, the buffer flushed, the bytes forwarded) are the bytes received
\* from the client in their order: always a prefix of them, all of them
\* whenever forwarding is about to read from the client, all but the chunk in
\* hand while it writes, and all the client sent once it has closed.
C31_UpstreamTranscript ==
    WellFormed =>
        /\ IsPrefix(up_out, TakenFromClient)
        /\ pc = "flush" => up_out = make_raw(0, PacketSent[sent])
        /\ (pc = "forward" /\ fwd["c2s"].pc \in {"first", "read"}) =>
              up_out = TakenFromClient
        /\ (pc = "forward" /\ fwd["c2s"].pc = "write") =>
              up_out \o fwd["c2s"].buf = TakenFromClient
        /\ (Forwarding /\ fwd["c2s"].closed /\ wire = <<>>) => up_out = sent

\* The connection has ended after a handshake with one byte buffered behind it
\* and one more forwarded, and the upstream holds all the client sent.
C31_Witness ==
    /\ WellFormed
    /\ pc = "done"
    /\ outcome = "closed"
    /\ BufferedPastHandshake # <<>>
    /\ fwd["c2s"].read # <<>>
    /\ fwd["c2s"].closed
    /\ up_out = sent


\* ------------------------------------------------ the replayed domain

\* handle_client has the decoded handshake in hand.
AfterDecode ==
    {"route", "lookup", "resolve", "insert", "connect", "replay", "flush", "forward"}

\* The handshake has been replayed in full.
Replayed == pc \in {"flush", "forward"} \/ (pc = "done" /\ outcome = "closed")

\* The frame of each packet on the wire, stated without the code.
FrameBytes ==
    [p \in Packets |->
        LET body == <<0>> \o HandshakeBytes(p)
        IN  VarIntBytes(Len(body)) \o body]

\* The server Config1 has for the domain of each packet, cut at its first NUL;
\* 0 when it has none.
RouteOf == [p \in Packets |-> find_upstream_config(truncate_to_zero(p.domain), Config1)]

\* C32: the handshake replayed to the upstream carries the domain as the
\* client sent it, a NUL and the bytes after it included; the domain cut at
\* the NUL selects the route and nothing else: the packet in hand stays the
\* packet received from the decode to the replay.
C32_DomainReplayedVerbatim ==
    WellFormed =>
        LET p == PacketSent[sent]
        IN  /\ pc \in AfterDecode => handshake = p
            /\ Replayed =>
                  /\ handshake.domain = p.domain
                  /\ IsPrefix(FrameBytes[p], up_out)
            /\ (pc \in AfterDecode \ {"route"}) =>
                  server_desc = Some(config.servers[RouteOf[p]])

\* A domain with a NUL in it has selected the route of the name before the
\* NUL, and the upstream has received the frame with the whole domain.
C32_Witness ==
    /\ WellFormed
    /\ pc = "flush"
    /\ handshake.domain = Str_a_nul_b
    /\ truncate_to_zero(handshake.domain) = Str_a
    /\ server_desc = Some(config.servers[1])
    /\ up_out = FrameBytes[handshake]


\* ------------------------------------------------ the packet id check

\* The client's stream starts with two whole VarInts, a length and a packet
\* id, and the packet id is not 0.
NonZeroId ==
    LET n1 == VarIntSize(sent)
        after == SubSeq(sent, n1 + 1, Len(sent))
        n2 == VarIntSize(after)
    IN  /\ n1 <= VarIntBufferSize
        /\ n1 < Len(sent)
        /\ n2 <= VarIntBufferSize
        /\ n1 + n2 <= Len(sent)
        /\ VarIntValue(after) # 0

\* The size of the signature at the head of the client's stream.
SignatureSize ==
    LET n1 == VarIntSize(sent)
    IN  n1 + VarIntSize(SubSeq(sent, n1 + 1, Len(sent)))

\* C33: when the packet id of the first frame is not 0, read_handshake_packet
\* fails: read_data is never called, so no read is made once the signature is
\* in the buffer and the cursor never passes the signature; handle_client
\* returns with no route looked up, no upstream contacted and nothing written
\* to the client.
C33_NonZeroIdDropped ==
    NonZeroId =>
        /\ pc \in {"accepted", "sig_length", "sig_id", "fill", "done"}
        /\ pc = "fill" => Len(sent) - Len(wire) < SignatureSize
        /\ minecraft.position <= SignatureSize
        /\ handshake = NoPacket
        /\ pc = "done" =>
              outcome \in {"nodelay_failed", "handshake_failed", "handshake_timeout"}
        /\ (pc = "done" /\ minecraft.position = SignatureSize) =>
              (outcome = "handshake_failed" /\ error \in {"PacketId", "Invalid"})
        /\ server_desc = None
        /\ upstream = None
        /\ contact = <<>>
        /\ up_out = <<>>
        /\ cli_out = <<>>

\* A frame with packet id 1 arrived whole: the connection has been dropped
\* at the packet id, with the payload still in the buffer, unread.
C33_Witness ==
    /\ sent = <<9, 1, 16, 3, 110, 101, 116, 255, 255, 2>>
    /\ pc = "done"
    /\ error = "PacketId"
    /\ minecraft.position = 2
    /\ take_buffer(minecraft) = <<16, 3, 110, 101, 116, 255, 255, 2>>


\* ------------------------------------------------ the forward buffer size

\* C34: the forward buffer size of a connection is the buffer_size of the
\* server its domain matched, or 8192 when that server sets none, also when
\* servers that share a proxy_pass set different sizes.
C34_BufferSizeOfRoute ==
    Forwarding => buf_size(upstream) = buf_size(server_desc)


\* ------------------------------------------------ the cache lock and the awaits

\* Task c is at the cache: in the lookup or in the insert.
AtCache(c) == tasks[c].pc \in {"lookup", "insert"}

\* C35: a connection holds a guard of the cache lock only inside its lookup
\* or its insert, and its next step drops it; it enters name resolution, the
\* dial and every network read or write with no guard and no place in the
\* lock's queue; so a connection at the cache while every other connection
\* is away from it, however long those take, can take its step.
C35_NoLockAcrossAwait ==
    /\ [](\A c \in Conns : tasks[c].guard # "none" => AtCache(c))
    /\ [][\A c \in Conns :
            (tasks[c].guard = "held" /\ tasks'[c] # tasks[c]) =>
                (tasks'[c].guard = "none" /\ tasks'[c].pc \in {"resolve", "connect"})]_vars
    /\ [][\A c \in Conns :
            (tasks'[c].pc # tasks[c].pc /\ tasks'[c].pc \in StallPhases \cup {"done"}) =>
                tasks'[c].guard = "none"]_vars
    /\ [](\A c \in Conns :
            (AtCache(c) /\ \A d \in Conns \ {c} : ~AtCache(d)) =>
                ENABLED TaskLookup(c) \/ ENABLED TaskInsert(c))
    /\ [](\A c \in Conns :
            (AtCache(c) /\ \A d \in Conns \ {c} : ~AtCache(d)) =>
                (Holding \cup Waiting) \subseteq {c})

\* One connection is resolving its backend while the other, which missed the
\* cache after it, holds the write guard for its insert.
C35_Witness ==
    /\ tasks[1].pc = "resolve"
    /\ tasks[1].guard = "none"
    /\ tasks[2].pc = "insert"
    /\ tasks[2].guard = "held"
    /\ tasks[2].server_desc = tasks[1].server_desc
====
